---- MODULE Spec2Model ----
(***************************************************************************)
(* Model of audio_to_tasks.core: the TaskExtractor (task_extractor.py) and *)
(* the Task model (models.py).                                             *)
(*                                                                         *)
(* Text is modelled at two grains.  A Python str that the code inspects    *)
(* character by character (titles, tags, priorities, the transcription     *)
(* text) is a sequence of one-character strings.  The LLM response, which  *)
(* the code hands to json.loads and to two regular expressions, is a       *)
(* sequence of lexemes (tokens): braces, brackets, commas, keys, scalar    *)
(* literals, record bodies, whitespace runs, prose words, the ``` fence    *)
(* and the "json" tag.  Lengths of a response count lexemes.               *)
(***************************************************************************)
EXTENDS Integers, Sequences, FiniteSets, TLC

----------------------------------------------------------------------------
(* Python str helpers *)

\* str.isspace() for one character (the characters used by the inputs).
IsSpace(c) == c \in {" ", "\t", "\n"}

\* The upper-case letters that occur in the inputs.
UpperChars == {"A", "B", "G", "H", "I", "L", "O", "P", "T", "W"}

\* str.lower() for one character; every other character is unchanged.
LowerChar(c) ==
    CASE c = "A" -> "a" [] c = "B" -> "b" [] c = "G" -> "g" [] c = "H" -> "h"
      [] c = "I" -> "i" [] c = "L" -> "l" [] c = "O" -> "o" [] c = "P" -> "p"
      [] c = "T" -> "t" [] c = "W" -> "w"
      [] OTHER -> c

\* str.lower()
Lower(s) == [i \in 1..Len(s) |-> LowerChar(s[i])]

\* Positions of the characters of s that are not whitespace.
NonSpacePositions(s) == {i \in 1..Len(s) : ~IsSpace(s[i])}

SetMin(S) == CHOOSE x \in S : \A y \in S : x <= y
SetMax(S) == CHOOSE x \in S : \A y \in S : y <= x

\* str.strip(): drop leading and trailing whitespace.
Strip(s) ==
    IF NonSpacePositions(s) = {} THEN <<>>
    ELSE SubSeq(s, SetMin(NonSpacePositions(s)), SetMax(NonSpacePositions(s)))

----------------------------------------------------------------------------
(* JSON values, as json.loads builds them.  Every value is tagged by t:    *)
(* "null", "num" (n), "str" (s: characters), "list" (items: sequence),     *)
(* "dict" (fields: function from key to value).                            *)

JNull == [t |-> "null"]
JNum(n) == [t |-> "num", n |-> n]
JStr(s) == [t |-> "str", s |-> s]
JList(items) == [t |-> "list", items |-> items]
JDict(fields) == [t |-> "dict", fields |-> fields]

\* The dict with no key.
NoFields == [x \in {} |-> JNull]

(* Lexemes of a response text. *)
LB == [k |-> "lb"]
RB == [k |-> "rb"]
LK == [k |-> "lk"]
RK == [k |-> "rk"]
Comma == [k |-> "comma"]
WS == [k |-> "ws"]
Word == [k |-> "word"]
Fence == [k |-> "fence"]
JsonTag == [k |-> "json"]
Key(name) == [k |-> "key", name |-> name]
Scalar(v) == [k |-> "scalar", v |-> v]
Body(fields) == [k |-> "body", fields |-> fields]

\* What a failed parse returns (json.JSONDecodeError).
DecodeError == [ok |-> FALSE, val |-> JNull, next |-> 0]

RECURSIVE ParseValue(_, _)
RECURSIVE ParseItems(_, _, _)
RECURSIVE ParseMembers(_, _, _)

\* One JSON value starting at lexeme i of s: [ok, val, next].
ParseValue(s, i) ==
    IF i > Len(s) THEN DecodeError
    ELSE IF s[i].k = "scalar" THEN [ok |-> TRUE, val |-> s[i].v, next |-> i + 1]
    ELSE IF s[i].k = "lk" THEN
        IF i + 1 <= Len(s) /\ s[i + 1].k = "rk"
        THEN [ok |-> TRUE, val |-> JList(<<>>), next |-> i + 2]
        ELSE ParseItems(s, i + 1, <<>>)
    ELSE IF s[i].k = "lb" THEN
        IF i + 1 <= Len(s) /\ s[i + 1].k = "rb"
        THEN [ok |-> TRUE, val |-> JDict(NoFields), next |-> i + 2]
        ELSE ParseMembers(s, i + 1, NoFields)
    ELSE DecodeError

\* The elements of an array after "[", up to and including "]".
ParseItems(s, i, acc) ==
    LET v == ParseValue(s, i) IN
    IF ~v.ok \/ v.next > Len(s) THEN DecodeError
    ELSE IF s[v.next].k = "comma" THEN ParseItems(s, v.next + 1, Append(acc, v.val))
    ELSE IF s[v.next].k = "rk"
         THEN [ok |-> TRUE, val |-> JList(Append(acc, v.val)), next |-> v.next + 1]
    ELSE DecodeError

\* The members of an object after "{", up to and including "}".  A member is
\* a key with its value, or a record body (the members of one task record).
\* A repeated key keeps the last value, as a Python dict does.
ParseMembers(s, i, acc) ==
    IF i > Len(s) THEN DecodeError
    ELSE
    LET v == IF s[i].k = "key" THEN ParseValue(s, i + 1) ELSE DecodeError
        isBody == s[i].k = "body"
        okm == isBody \/ v.ok
        j == IF isBody THEN i + 1 ELSE v.next
        m == IF isBody THEN s[i].fields ELSE (s[i].name :> v.val)
    IN
    IF ~okm \/ j > Len(s) THEN DecodeError
    ELSE IF s[j].k = "comma" THEN ParseMembers(s, j + 1, m @@ acc)
    ELSE IF s[j].k = "rb"
         THEN [ok |-> TRUE, val |-> JDict(m @@ acc), next |-> j + 1]
    ELSE DecodeError

\* json.loads(text): whitespace between lexemes is insignificant; the whole
\* text must be one value.
json_loads(s) ==
    LET t == SelectSeq(s, LAMBDA x : x.k # "ws")
        r == ParseValue(t, 1)
    IN  IF r.ok /\ r.next = Len(t) + 1
        THEN [ok |-> TRUE, val |-> r.val]
        ELSE [ok |-> FALSE, val |-> JNull]

----------------------------------------------------------------------------
(* TaskExtractor._parse_llm_response *)

\* Number of leading units of the response kept as the error's preview.
PreviewLen == 500

\* response_text[:n]
Prefix(s, n) == SubSeq(s, 1, IF Len(s) < n THEN Len(s) ELSE n)

\* First position at or after i whose lexeme is not whitespace (Len(s)+1 if none):
\* where a greedy \s* stops.
SkipWs(s, i) ==
    LET rest == {j \in i..Len(s) : s[j].k # "ws"}
    IN  IF rest = {} THEN Len(s) + 1 ELSE SetMin(rest)

\* For a fence at i, the position of the "{" that "```(?:json)?\s*(\{" reaches, or 0.
FenceGroupStart(s, i) ==
    LET j == IF i + 1 <= Len(s) /\ s[i + 1].k = "json" THEN i + 2 ELSE i + 1
        g == SkipWs(s, j)
    IN  IF g <= Len(s) /\ s[g].k = "lb" THEN g ELSE 0

\* The positions e of a "}" after g that "\}\s*```" accepts.
FenceGroupEnds(s, g) ==
    {e \in (g + 1)..Len(s) :
        /\ s[e].k = "rb"
        /\ SkipWs(s, e + 1) <= Len(s)
        /\ s[SkipWs(s, e + 1)].k = "fence"}

\* The fences at which the tier-2 pattern matches.
FenceMatches(s) ==
    {i \in 1..Len(s) :
        /\ s[i].k = "fence"
        /\ FenceGroupStart(s, i) # 0
        /\ FenceGroupEnds(s, FenceGroupStart(s, i)) # {}}

\* group(1) of re.search(r"```(?:json)?\s*(\{.*?\})\s*```", text, re.DOTALL):
\* the leftmost match, its lazy group ending at the first "}" that closes.
fenced_group(s) ==
    LET i == SetMin(FenceMatches(s))
        g == FenceGroupStart(s, i)
    IN  SubSeq(s, g, SetMin(FenceGroupEnds(s, g)))

IsTasksKey(x) == x.k = "key" /\ x.name = "tasks"

\* The "{" from which r"\{.*\"tasks\".*\}" can match.
EmbeddedStarts(s) ==
    {i \in 1..Len(s) :
        /\ s[i].k = "lb"
        /\ \E k \in (i + 1)..Len(s) :
              /\ IsTasksKey(s[k])
              /\ \E e \in (k + 1)..Len(s) : s[e].k = "rb"}

\* group() of re.search(r"\{.*\"tasks\".*\}", text, re.DOTALL): leftmost start,
\* greedy to the last "}" of the text.
embedded_match(s) ==
    SubSeq(s, SetMin(EmbeddedStarts(s)),
              SetMax({e \in 1..Len(s) : s[e].k = "rb"}))

\* A mutation of a tier: an object without the "tasks" key falls through to the
\* next tier.
TierOutcome_KeyRequired(text) ==
    LET r == json_loads(text) IN
    IF ~r.ok THEN [kind |-> "decode", tasks |-> JNull]
    ELSE IF r.val.t # "dict" THEN [kind |-> "attr", tasks |-> JNull]
    ELSE IF "tasks" \in DOMAIN r.val.fields
         THEN [kind |-> "ok", tasks |-> r.val.fields["tasks"]]
         ELSE [kind |-> "decode", tasks |-> JNull]

\* What one tier does with the text it hands to json.loads:
\*   "decode"  json.JSONDecodeError, caught: fall through to the next tier
\*   "ok"      data.get("tasks", []) returned
\*   "attr"    data is not a dict: data.get raises AttributeError, not caught
TierOutcome(text) ==
    LET r == json_loads(text) IN
    IF ~r.ok THEN [kind |-> "decode", tasks |-> JNull]
    ELSE IF r.val.t # "dict" THEN [kind |-> "attr", tasks |-> JNull]
    ELSE IF "tasks" \in DOMAIN r.val.fields
         THEN [kind |-> "ok", tasks |-> r.val.fields["tasks"]]
         ELSE [kind |-> "ok", tasks |-> JList(<<>>)]

Tier1(s) == TierOutcome(s)

Tier2(s) ==
    IF FenceMatches(s) = {} THEN [kind |-> "decode", tasks |-> JNull]
    ELSE TierOutcome(fenced_group(s))

Tier3(s) ==
    IF EmbeddedStarts(s) = {} THEN [kind |-> "decode", tasks |-> JNull]
    ELSE TierOutcome(embedded_match(s))

ParseReturn(tier, tasks) ==
    [kind |-> "return", tier |-> tier, tasks |-> tasks,
     error |-> "none", preview |-> <<>>]

ParseRaise(tier, error, preview) ==
    [kind |-> "raise", tier |-> tier, tasks |-> JNull,
     error |-> error, preview |-> preview]

\* _parse_llm_response(response_text)
parse_llm_response(s) ==
    LET t1 == Tier1(s)
        t2 == Tier2(s)
        t3 == Tier3(s)
    IN
    IF t1.kind = "ok" THEN ParseReturn(1, t1.tasks)
    ELSE IF t1.kind = "attr" THEN ParseRaise(1, "AttributeError", <<>>)
    ELSE IF t2.kind = "ok" THEN ParseReturn(2, t2.tasks)
    ELSE IF t2.kind = "attr" THEN ParseRaise(2, "AttributeError", <<>>)
    ELSE IF t3.kind = "ok" THEN ParseReturn(3, t3.tasks)
    ELSE IF t3.kind = "attr" THEN ParseRaise(3, "AttributeError", <<>>)
    ELSE ParseRaise(0, "TaskExtractionError", Prefix(s, PreviewLen))

----------------------------------------------------------------------------
(* models.py: TaskPriority, TaskStatus, Task *)

\* TaskPriority: the enum's values.
PriorityValues ==
    { <<"l","o","w">>, <<"m","e","d","i","u","m">>,
      <<"h","i","g","h">>, <<"u","r","g","e","n","t">> }

\* TaskPriority.MEDIUM
MEDIUM == <<"m","e","d","i","u","m">>

\* TaskStatus: the enum's values.
StatusValues == {"pending", "in_progress", "completed", "cancelled"}

\* A mutation of the model: Task also accepts the key "owner".
TaskFields_WithOwner ==
    {"title", "description", "priority", "status", "due_date", "assignee",
     "tags", "source_segment", "owner"}

\* The fields Task declares; extra="forbid" rejects every other key.
TaskFields ==
    {"title", "description", "priority", "status", "due_date", "assignee",
     "tags", "source_segment"}

\* Field(max_length=200) of Task.title
MaxTitleLen == 200

\* A member of an enum (TaskPriority, TaskStatus) with value s.
JEnum(s) == [t |-> "enum", s |-> s]

\* A validated datetime.
DateTime(d, tm) == [t |-> "datetime", date |-> d, time |-> tm]

\* Calendar dates and times of day the inputs use that exist.
ValidDates == {"2025-01-15"}
ValidTimes == {"00:00:00", "10:00:00"}

\* Validation of a "datetime | None" field: None, a datetime, or a str that
\* is date, separator, time; a date alone is midnight.
ParseDatetime(v) ==
    IF v.t \in {"null", "datetime"} THEN [ok |-> TRUE, val |-> v]
    ELSE IF v.t # "str" THEN [ok |-> FALSE, val |-> JNull]
    ELSE IF Len(v.s) = 1 /\ v.s[1] \in ValidDates
         THEN [ok |-> TRUE, val |-> DateTime(v.s[1], "00:00:00")]
    ELSE IF /\ Len(v.s) = 3
            /\ v.s[1] \in ValidDates
            /\ v.s[2] \in {"T", " "}
            /\ v.s[3] \in ValidTimes
         THEN [ok |-> TRUE, val |-> DateTime(v.s[1], v.s[3])]
    ELSE [ok |-> FALSE, val |-> JNull]

\* Validation of a "str | None" field under str_strip_whitespace=True.
OptionalStr(v) ==
    IF v.t = "null" THEN [ok |-> TRUE, val |-> JNull]
    ELSE IF v.t = "str" THEN [ok |-> TRUE, val |-> JStr(Strip(v.s))]
    ELSE [ok |-> FALSE, val |-> JNull]

\* A title validated without str_strip_whitespace.
ValidTitle_NoStrip(v) ==
    IF v.t # "str" THEN [ok |-> FALSE, val |-> <<>>]
    ELSE [ok |-> Len(v.s) >= 1 /\ Len(v.s) <= MaxTitleLen, val |-> v.s]

\* A title validated without the min_length=1 constraint.
ValidTitle_NoMin(v) ==
    IF v.t # "str" THEN [ok |-> FALSE, val |-> <<>>]
    ELSE [ok |-> Len(Strip(v.s)) <= MaxTitleLen, val |-> Strip(v.s)]

\* Validation of Task.title from a JSON value: a str, stripped, 1..200 long.
ValidTitle(v) ==
    IF v.t # "str" THEN [ok |-> FALSE, val |-> <<>>]
    ELSE [ok |-> Len(Strip(v.s)) >= 1 /\ Len(Strip(v.s)) <= MaxTitleLen,
          val |-> Strip(v.s)]

\* Validation of Task.priority: a TaskPriority member, or a str equal to a value.
ValidPriority(v) ==
    IF v.t \in {"enum", "str"} /\ v.s \in PriorityValues
    THEN [ok |-> TRUE, val |-> v.s]
    ELSE [ok |-> FALSE, val |-> MEDIUM]

\* Validation of Task.status: a TaskStatus member, or a str equal to a value.
ValidStatus(v) ==
    IF v.t \in {"enum", "str"} /\ Len(v.s) = 1 /\ v.s[1] \in StatusValues
    THEN [ok |-> TRUE, val |-> v.s[1]]
    ELSE [ok |-> FALSE, val |-> "pending"]

\* The entries normalize_tags keeps: isinstance(tag, str) and tag.strip().
KeptTag(tag) == tag.t = "str" /\ Strip(tag.s) # <<>>

RECURSIVE FilterMapTags(_)
\* [tag.lower().strip() for tag in v if isinstance(tag, str) and tag.strip()]
FilterMapTags(items) ==
    IF items = <<>> THEN <<>>
    ELSE LET rest == FilterMapTags(Tail(items)) IN
         IF KeptTag(Head(items))
         THEN <<Strip(Lower(Head(items).s))>> \o rest
         ELSE rest

RECURSIVE FilterMapTagsNoLower(_)
\* The comprehension without .lower().
FilterMapTagsNoLower(items) ==
    IF items = <<>> THEN <<>>
    ELSE LET rest == FilterMapTagsNoLower(Tail(items)) IN
         IF KeptTag(Head(items))
         THEN <<Strip(Head(items).s)>> \o rest
         ELSE rest

\* normalize_tags without lower-casing.
normalize_tags_no_lower(v) ==
    IF v.t = "list" THEN FilterMapTagsNoLower(v.items) ELSE <<>>

\* Task.normalize_tags (mode="before"): None and every non-list give [].
normalize_tags(v) ==
    IF v.t = "null" THEN <<>>
    ELSE IF v.t = "list" THEN FilterMapTags(v.items)
    ELSE <<>>

\* The value of field f of the mapping d, or dflt when the key is absent.
Get(d, f, dflt) == IF f \in DOMAIN d THEN d[f] ELSE dflt

\* The Task a failed validation stands for in the model.
NoTask ==
    [title |-> <<>>, description |-> JNull, priority |-> MEDIUM,
     status |-> "pending", due_date |-> JNull, assignee |-> JNull,
     tags |-> <<>>, source_segment |-> JNull]

\* Task(**d): [exc, task].  exc is "none", or "ValidationError" where pydantic
\* raises it.
validate_task(d) ==
    LET title == IF "title" \in DOMAIN d THEN ValidTitle(d["title"])
                 ELSE [ok |-> FALSE, val |-> <<>>]
        description == OptionalStr(Get(d, "description", JNull))
        priority == IF "priority" \in DOMAIN d THEN ValidPriority(d["priority"])
                    ELSE [ok |-> TRUE, val |-> MEDIUM]
        status == IF "status" \in DOMAIN d THEN ValidStatus(d["status"])
                  ELSE [ok |-> TRUE, val |-> "pending"]
        due_date == ParseDatetime(Get(d, "due_date", JNull))
        assignee == OptionalStr(Get(d, "assignee", JNull))
        source_segment == OptionalStr(Get(d, "source_segment", JNull))
        ok == /\ DOMAIN d \subseteq TaskFields
              /\ title.ok /\ description.ok /\ priority.ok /\ status.ok
              /\ due_date.ok /\ assignee.ok /\ source_segment.ok
    IN  IF ok
        THEN [exc |-> "none",
              task |-> [title |-> title.val, description |-> description.val,
                        priority |-> priority.val, status |-> status.val,
                        due_date |-> due_date.val, assignee |-> assignee.val,
                        tags |-> normalize_tags(Get(d, "tags", JList(<<>>))),
                        source_segment |-> source_segment.val]]
        ELSE [exc |-> "ValidationError", task |-> NoTask]

\* Task.model_dump_json() read back by json.loads: the record of a Task.
model_dump_json(task) ==
    [title |-> JStr(task.title),
     description |-> task.description,
     priority |-> JStr(task.priority),
     status |-> JStr(<<task.status>>),
     due_date |-> IF task.due_date.t = "null" THEN JNull
                  ELSE JStr(<<task.due_date.date, "T", task.due_date.time>>),
     assignee |-> task.assignee,
     tags |-> JList([i \in 1..Len(task.tags) |-> JStr(task.tags[i])]),
     source_segment |-> task.source_segment]

\* Task.model_dump(): the fields as Python objects; priority and status are
\* enum members, due_date a datetime.
model_dump(task) ==
    [title |-> JStr(task.title),
     description |-> task.description,
     priority |-> JEnum(task.priority),
     status |-> JEnum(<<task.status>>),
     due_date |-> task.due_date,
     assignee |-> task.assignee,
     tags |-> JList([i \in 1..Len(task.tags) |-> JStr(task.tags[i])]),
     source_segment |-> task.source_segment]

----------------------------------------------------------------------------
(* TaskExtractor.extract_tasks: the per-record normalization *)

\* bool(v): None, 0 and the empty str, list and dict are false.
Truthy(v) ==
    CASE v.t = "null" -> FALSE
      [] v.t = "num"  -> v.n # 0
      [] v.t = "str"  -> v.s # <<>>
      [] v.t = "list" -> v.items # <<>>
      [] v.t = "dict" -> DOMAIN v.fields # {}
      [] OTHER -> TRUE

\* str(v) of a value that is truthy.  A member of a (str, Enum) class prints
\* as "TaskPriority.<NAME>"; the name is written here in the case of its
\* value, the code lower-cases the string next.
PyStr(v) ==
    CASE v.t = "str"  -> v.s
      [] v.t = "enum" ->
            <<"T","a","s","k","P","r","i","o","r","i","t","y",".">> \o v.s
      [] v.t = "num"  -> <<"1">>
      [] v.t = "list" -> <<"[", "]">>
      [] OTHER -> <<"{", "}">>

\* TaskPriority(priority_str), ValueError replaced by TaskPriority.MEDIUM.
CoercePriority(priority_str) ==
    IF priority_str \in PriorityValues THEN priority_str ELSE MEDIUM

\* The guard of the priority rewrite: "priority" in task_dict and task_dict["priority"].
RewritesPriority(d) ==
    "priority" \in DOMAIN d /\ Truthy(d["priority"])

\* The value the rewrite stores: TaskPriority(str(v).lower()) or MEDIUM.
PriorityOf(v) == JEnum(CoercePriority(Lower(PyStr(v))))

\* The body of the loop for one record, up to Task(**task_dict): [exc, task].
\* exc names what the body raises, "none" if nothing.  A record that is not a
\* dict raises TypeError: at the "in" test (a number, null), at the subscript
\* (a str or list that contains "priority"), or at Task(**task_dict).
normalize_record(rec) ==
    IF rec.t # "dict" THEN [exc |-> "TypeError", task |-> NoTask]
    ELSE IF RewritesPriority(rec.fields)
    THEN validate_task([rec.fields EXCEPT !["priority"] = PriorityOf(@)])
    ELSE validate_task(rec.fields)

\* A handler that catches pydantic's ValidationError only.
Skips_ValidationOnly(exc) == exc = "ValidationError"

\* "except Exception" around the body: every exception skips the record.
Skips(exc) == exc # "none"

\* tasks.insert(0, task)
PrependTask(tasks, task) == <<task>> \o tasks

\* tasks.append(task)
AppendTask(tasks, task) == Append(tasks, task)

\* "if not text:", which takes whitespace for text.
text_is_empty_no_strip(text) == text = <<>>

\* "not text.strip()"
text_is_empty(text) == Strip(text) = <<>>

\* What "for task_dict in task_dicts" iterates over: the items of a list, the
\* characters of a str, the keys of a dict.
IterItems(v) ==
    CASE v.t = "list" -> v.items
      [] v.t = "str"  -> [i \in 1..Len(v.s) |-> JStr(<<v.s[i]>>)]
      [] v.t = "dict" ->
            LET RECURSIVE Keys(_)
                Keys(S) == IF S = {} THEN <<>>
                           ELSE LET k == CHOOSE k \in S : TRUE
                                IN  <<JStr(<<k>>)>> \o Keys(S \ {k})
            IN  Keys(DOMAIN v.fields)
      [] OTHER -> <<>>

\* Whether iter(v) succeeds; None and numbers raise TypeError.
Iterable(v) == v.t \in {"list", "str", "dict"}

----------------------------------------------------------------------------
(* Inputs *)

\* Longest list of records a response of the model holds.
MaxRecords == 2

\* Longest list of tags given to Task in the model.
MaxTags == 2

\* Sequences over S of length at most n.
SeqsUpTo(S, n) == UNION {[1..m -> S] : m \in 0..n}

\* What extract_tasks is called with: a str (isResult FALSE, no metadata) or a
\* TranscriptionResult with text, audio_path, duration_seconds and language.
StrInput(text) ==
    [isResult |-> FALSE, text |-> text, audio_path |-> "None",
     duration_seconds |-> "None", language |-> "None"]

ResultInput(text, path, dur) ==
    [isResult |-> TRUE, text |-> text, audio_path |-> path,
     duration_seconds |-> dur, language |-> "en"]

BlankTexts == { <<>>, <<" ">>, <<" ", "\n", "\t", " ">> }
SpokenTexts == { <<" ", "x", "\n">> }

Transcriptions ==
    {StrInput(x) : x \in BlankTexts \cup SpokenTexts}
    \cup {ResultInput(<<>>, "a.mp3", "0.0"), ResultInput(<<"\n">>, "None", "3.5"),
          ResultInput(<<"h", "i">>, "a.mp3", "3.5")}

\* A title one character longer than Task allows.
LongTitle == [i \in 1..(MaxTitleLen + 1) |-> "x"]
\* A title exactly as long as Task allows, with whitespace around it.
FullTitle == <<" ">> \o [i \in 1..MaxTitleLen |-> "y"] \o <<" ">>

Rec(title) == [title |-> JStr(title)]
RecP(title, priority) == [title |-> JStr(title), priority |-> priority]

\* Priority strings: the values in several cases, unknown words, the empty string.
PriorityStrings ==
    { <<"h","i","g","h">>, <<"H","I","G","H">>, <<"L","o","w">>,
      <<"b","o","g","u","s">>, <<" ","l","o","w">>, <<>> }

\* Those the responses of the extractor's specification use.
ResponsePriorityStrings ==
    { <<"h","i","g","h">>, <<"L","o","w">>, <<"b","o","g","u","s">>, <<>> }

\* Records whose title is empty or whitespace only.
BlankTitleRecords == { JDict(Rec(<<>>)), JDict(Rec(<<" ", "\t">>)) }

\* Records that carry a priority string and are otherwise valid.
PriorityRecords == { JDict(RecP(<<"p">>, JStr(s))) : s \in ResponsePriorityStrings }

\* Records valid in every field.
PlainRecords ==
    { JDict(Rec(<<"a">>)),
      JDict([title |-> JStr(<<" ", "A", "b", " ">>),
             tags |-> JList(<<JStr(<<" ", "G", "o">>), JStr(<<" ">>), JStr(<<"b">>)>>),
             due_date |-> JStr(<<"2025-01-15", " ", "10:00:00">>),
             assignee |-> JStr(<<"B", "o", " ">>)]) }

\* Records that fail validation for another reason than a blank title.
InvalidRecords ==
    { JDict([title |-> JStr(<<"d">>), due_date |-> JStr(<<"2025-13-45">>)]),
      JDict([title |-> JStr(<<"d">>), description |-> JNum(1)]),
      JDict([title |-> JNum(1)]),
      JDict([title |-> JStr(<<"e">>), owner |-> JStr(<<"x">>)]),
      JDict(RecP(<<"n">>, JNull)),
      JStr(<<"x">>), JNum(1) }

RecordPool == PlainRecords \cup PriorityRecords \cup BlankTitleRecords \cup InvalidRecords

\* Lists with a title at and over the length Task allows.
LongTitleLists ==
    { <<JDict(Rec(LongTitle))>>, <<JDict(Rec(LongTitle)), JDict(Rec(<<"a">>))>>,
      <<JDict(Rec(FullTitle))>>, <<JDict(Rec(<<>>)), JDict(Rec(FullTitle))>> }

\* The two records the wrapped responses are built from.
WrapRecords == { JDict(Rec(<<"a">>)), JDict(RecP(<<"p">>, JStr(<<"H","I","G","H">>))) }

RECURSIVE ItemsText(_)
\* The lexemes of the elements of an array: each record an object or a scalar.
ItemsText(recs) ==
    IF recs = <<>> THEN <<>>
    ELSE LET r == Head(recs)
             one == IF r.t = "dict" THEN <<LB, Body(r.fields), RB>> ELSE <<Scalar(r)>>
         IN  IF Len(recs) = 1 THEN one ELSE one \o <<Comma>> \o ItemsText(Tail(recs))

\* The text of the JSON object {"tasks": [recs...]}.
TasksObject(recs) == <<LB, Key("tasks"), LK>> \o ItemsText(recs) \o <<RK, RB>>

\* The ways a response wraps the object: the whole text, a ``` fence with or
\* without the json tag, surrounding prose (with and without braces of its own).
Wrappers ==
    { [style |-> "plain",  pre |-> <<>>, post |-> <<>>],
      [style |-> "plain",  pre |-> <<WS>>, post |-> <<WS>>],
      [style |-> "fenced", pre |-> <<Fence>>, post |-> <<Fence>>],
      [style |-> "fenced", pre |-> <<Fence, WS>>, post |-> <<WS, Fence>>],
      [style |-> "fenced", pre |-> <<Fence, JsonTag, WS>>, post |-> <<WS, Fence>>],
      [style |-> "prose",  pre |-> <<Word, WS>>, post |-> <<>>],
      [style |-> "prose",  pre |-> <<Word, WS>>, post |-> <<WS, Word>>],
      [style |-> "prose",  pre |-> <<Word, WS, Fence, JsonTag, WS>>,
                           post |-> <<WS, Fence, WS, Word>>],
      [style |-> "prose",  pre |-> <<Word, LB, Word, RB, WS>>, post |-> <<>>],
      [style |-> "prose",  pre |-> <<>>, post |-> <<WS, LB, Word, RB>>],
      [style |-> "prose",  pre |-> <<Fence, LB, RB, Fence, WS>>, post |-> <<>>] }

Wrapped(w, recs) ==
    [text |-> w.pre \o TasksObject(recs) \o w.post, style |-> w.style, recs |-> recs]

Other(text) == [text |-> text, style |-> "other", recs |-> <<>>]

\* A response longer than the preview.
LongProse == [i \in 1..(PreviewLen + 1) |-> IF i = PreviewLen + 1 THEN WS ELSE Word]

\* Responses that are not an object with a "tasks" list.
OtherResponses ==
    { Other(<<>>), Other(<<Word, WS, Word>>), Other(LongProse),
      Other(<<LK, RK>>), Other(<<Scalar(JNull)>>), Other(<<Scalar(JNum(1))>>),
      Other(<<Scalar(JStr(<<"x">>))>>),
      Other(<<LB, RB>>),
      Other(<<LB, Key("note"), Scalar(JNull), RB>>),
      Other(<<LB, Key("tasks"), Scalar(JNull), RB>>),
      Other(<<LB, Key("tasks"), Scalar(JNum(1)), RB>>),
      Other(<<LB, Key("tasks"), Scalar(JStr(<<"x", "y">>)), RB>>),
      Other(<<LB, Key("tasks"), LB, Body(Rec(<<"a">>)), RB, RB>>),
      Other(<<LB, Key("tasks"), LK, LB, Body(Rec(<<"a">>))>>),
      Other(<<Fence, LK, Scalar(JNum(1)), RK, Fence>>),
      Other(<<Fence, WS, LB, Key("note"), Scalar(JNull), RB, Fence>>),
      Other(<<Word, LB, Key("tasks"), Word, RB>>) }

\* The texts the chat call can return.
Responses ==
    {Wrapped([style |-> "plain", pre |-> <<>>, post |-> <<>>], recs) :
        recs \in SeqsUpTo(RecordPool, MaxRecords) \cup LongTitleLists}
    \cup {Wrapped(w, recs) : w \in Wrappers, recs \in SeqsUpTo(WrapRecords, MaxRecords)}
    \cup OtherResponses

\* The exceptions the ollama client raises from chat(): none of them is this
\* package's OllamaConnectionError.
ChatErrors == {"ConnectionError", "ReadTimeout", "ResponseError"}

\* Those that report a backend that is unreachable or does not answer in time.
ConnectivityErrors == {"ConnectionError", "ReadTimeout"}

----------------------------------------------------------------------------
(* TaskExtractor.check_connection *)

\* a in b, for two str.
IsSubstring(a, b) ==
    \E i \in 0..(Len(b) - Len(a)) : SubSeq(b, i + 1, i + Len(a)) = a

\* A mutation of SplitFirst: the tag is kept.
SplitFirst_KeepTag(s) == s

\* s.split(":")[0]: s up to its first ":", all of s if it has none.
SplitFirst(s) ==
    LET colons == {i \in 1..Len(s) : s[i] = ":"}
    IN  IF colons = {} THEN s ELSE SubSeq(s, 1, SetMin(colons) - 1)

\* model_base = self._config.model.split(":")[0]
model_base(model) == SplitFirst(model)

RECURSIVE model_names(_)
\* [m.get("name", "") for m in models] over the items of a list: the names, or
\* the exception an item without get raises.
model_names(items) ==
    IF items = <<>> THEN [exc |-> "none", names |-> <<>>]
    ELSE IF Head(items).t # "dict" THEN [exc |-> "AttributeError", names |-> <<>>]
    ELSE LET rest == model_names(Tail(items))
         IN  IF rest.exc # "none" THEN rest
             ELSE [exc |-> "none",
                   names |-> <<Get(Head(items).fields, "name", JStr(<<>>))>> \o rest.names]

RECURSIVE any_contains(_, _)
\* any(model_base in name for name in model_names): "yes", "no", or the
\* TypeError of "in" on a name that is not a str, if no earlier name matched.
any_contains(base, names) ==
    IF names = <<>> THEN "no"
    ELSE IF Head(names).t # "str" THEN "TypeError"
    ELSE IF IsSubstring(base, Head(names).s) THEN "yes"
    ELSE any_contains(base, Tail(names))

\* An outcome of check_connection.
CheckTrue == [kind |-> "return", value |-> TRUE, error |-> "none", model |-> <<>>,
              host |-> "none", cause |-> "none"]

NotFound(model) ==
    [kind |-> "raise", value |-> FALSE, error |-> "OllamaModelNotFoundError",
     model |-> model, host |-> "none", cause |-> "none"]

\* OllamaConnectionError(f"Cannot connect to Ollama at {host}: {e}") from e
CannotConnect(host, e) ==
    [kind |-> "raise", value |-> FALSE, error |-> "OllamaConnectionError",
     model |-> <<>>, host |-> host, cause |-> e]

\* A mutation of the handlers: "except Exception" alone, which takes the
\* model-not-found error too.
check_handlers_one(cfg, exc) == CannotConnect(cfg.host, exc)

\* The handlers of check_connection: OllamaModelNotFoundError is re-raised,
\* every other exception becomes OllamaConnectionError.
check_handlers(cfg, exc) ==
    IF exc = "OllamaModelNotFoundError" THEN NotFound(cfg.model)
    ELSE CannotConnect(cfg.host, exc)

\* The try block of check_connection once self.client.list() has returned
\* answer: the exception it raises, "none" if it returns True.
check_body(cfg, answer) ==
    IF answer.t # "dict" THEN "AttributeError"
    ELSE LET models == Get(answer.fields, "models", JList(<<>>))
         IN  IF ~Iterable(models) THEN "TypeError"
             ELSE LET mn == model_names(IterItems(models))
                  IN  IF mn.exc # "none" THEN mn.exc
                      ELSE LET found == any_contains(model_base(cfg.model), mn.names)
                           IN  CASE found = "yes" -> "none"
                                 [] found = "no"  -> "OllamaModelNotFoundError"
                                 [] OTHER         -> found

\* check_connection, the model-list query having returned answer.
check_answer(cfg, answer) ==
    LET exc == check_body(cfg, answer)
    IN  IF exc = "none" THEN CheckTrue ELSE check_handlers(cfg, exc)

\* Most models a model list of the backend holds.
MaxModels == 2

\* The configured models: with a tag, without, with two colons, with an empty
\* base, empty.
ConfigModels ==
    { <<"g", ":", "4">>, <<"g">>, <<"g", "e">>, <<":", "4">>, <<>>,
      <<"g", ":", "4", ":", "q">>, <<"o", ":", "g">> }

Hosts == {"http://localhost:11434", "http://gpu:11434"}

Configs == { [model |-> m, host |-> h] : m \in ConfigModels, h \in Hosts }

\* The configuration of the extractor's own specification: the defaults.
DefaultConfig == [model |-> <<"g", ":", "4">>, host |-> "http://localhost:11434"]

\* The entries of a model list: named, or without a name.
ModelEntries ==
    { JDict([name |-> JStr(n)]) :
        n \in { <<"g", ":", "4">>, <<"g", "e", ":", "1">>, <<"x", "g">>, <<"o">>, <<>> } }
    \cup { JDict([size |-> JNum(1)]) }

\* What the backend answers: a list of entries, or a mapping without "models".
ListAnswers ==
    { JDict([models |-> JList(es)]) : es \in SeqsUpTo(ModelEntries, MaxModels) }
    \cup { JDict([status |-> JStr(<<"o">>)]) }

\* Answers that do not follow the protocol of the model list.
MalformedAnswers ==
    { JDict([models |-> JNull]),
      JDict([models |-> JList(<<JStr(<<"g">>)>>)]),
      JDict([models |-> JList(<<JDict([name |-> JNull])>>)]),
      JDict([models |-> JList(<<JDict([name |-> JStr(<<"g">>)]), JDict([name |-> JNull])>>)]),
      JNull }

\* The exceptions the ollama client raises from list().
ListErrors == {"ConnectionError", "ReadTimeout", "ResponseError"}

----------------------------------------------------------------------------
(* Transcriber *)

\* Transcriber.SUPPORTED_FORMATS
SUPPORTED_FORMATS ==
    { <<"m", "p", "3">>, <<"w", "a", "v">>, <<"m", "4", "a">>, <<"f", "l", "a", "c">>,
      <<"o", "g", "g">>, <<"w", "e", "b", "m">>, <<"w", "m", "a">>,
      <<"o", "p", "u", "s">> }

\* str.lstrip("."): s without its leading dots.
LstripDot(s) ==
    LET other == {i \in 1..Len(s) : s[i] # "."}
    IN  IF other = {} THEN <<>> ELSE SubSeq(s, SetMin(other), Len(s))

\* AudioFile(path=path): validate_path, then the format inferred from the
\* suffix.  pydantic reports the validator's ValueError as a ValidationError,
\* which is a ValueError.
AudioFile(path) ==
    IF ~path.exists THEN [exc |-> "ValidationError", why |-> "not found", format |-> <<>>]
    ELSE IF ~path.is_file THEN [exc |-> "ValidationError", why |-> "not a file", format |-> <<>>]
    ELSE [exc |-> "none", why |-> "none", format |-> LstripDot(path.suffix)]

\* A mutation of the format test: every format passes.
format_supported_any(format) == TRUE

\* (audio_file.format or "").lower() in self.SUPPORTED_FORMATS
format_supported(format) == Lower(format) \in SUPPORTED_FORMATS

\* validate_audio_file(path): the exception it raises, "none" if it returns.
validate_audio_file(path) ==
    LET af == AudioFile(path)
    IN  IF af.exc # "none" THEN af.exc
        ELSE IF ~format_supported(af.format) THEN "UnsupportedAudioFormatError"
        ELSE "none"

\* The exceptions that are a ValueError.
ValueErrors == {"ValueError", "ValidationError", "UnicodeDecodeError"}

NoTranscription ==
    [kind |-> "none", text |-> <<>>, segments |-> <<>>, language |-> "None",
     language_probability |-> 0, duration_seconds |-> 0, audio_path |-> "None",
     error |-> "none", details |-> "none", cause |-> "none"]

\* An exception leaving transcribe.
TranscribeRaised(error, details, cause) ==
    [NoTranscription EXCEPT !.kind = "raise", !.error = error, !.details = details,
                            !.cause = cause]

\* The handlers of transcribe: UnsupportedAudioFormatError and ValueError are
\* re-raised as they are, every other exception is wrapped in a
\* TranscriptionError whose details hold str(path).
transcribe_handlers(path, e) ==
    IF e = "UnsupportedAudioFormatError" \/ e \in ValueErrors
    THEN TranscribeRaised(e, "none", "none")
    ELSE TranscribeRaised("TranscriptionError", path.str, e)

\* TranscriptionSegment(start=..., end=..., text=segment.text.strip()): start
\* and end are ge=0.
make_segment(segment) ==
    IF segment.start < 0 \/ segment.end < 0
    THEN [exc |-> "ValidationError", seg |-> segment]
    ELSE [exc |-> "none",
          seg |-> [start |-> segment.start, end |-> segment.end,
                   text |-> Strip(segment.text)]]

RECURSIVE JoinSpace(_)
\* " ".join(parts)
JoinSpace(parts) ==
    IF parts = <<>> THEN <<>>
    ELSE IF Len(parts) = 1 THEN parts[1]
    ELSE parts[1] \o <<" ">> \o JoinSpace(Tail(parts))

\* A mutation of the duration: the sum of the segments' lengths.
RECURSIVE SumLengths(_)
SumLengths(segments) ==
    IF segments = <<>> THEN 0
    ELSE (Head(segments).end - Head(segments).start) + SumLengths(Tail(segments))

duration_as_sum(segments) == SumLengths(segments)

\* segments[-1].end if segments else 0.0
duration_of(segments) ==
    IF segments = <<>> THEN 0 ELSE segments[Len(segments)].end

\* TranscriptionResult(text=..., segments=..., language=info.language,
\* language_probability=..., duration_seconds=..., audio_path=str(path))
make_result(path, segments, parts, info) ==
    IF info.language = "None"
       \/ info.language_probability < 0
       \/ info.language_probability > 1
       \/ duration_of(segments) < 0
    THEN [exc |-> "ValidationError", res |-> NoTranscription]
    ELSE [exc |-> "none",
          res |-> [NoTranscription EXCEPT
                     !.kind = "return",
                     !.text = JoinSpace(parts),
                     !.segments = segments,
                     !.language = info.language,
                     !.language_probability = info.language_probability,
                     !.duration_seconds = duration_of(segments),
                     !.audio_path = path.str]]

\* Most segments an output of the engine holds.
MaxSegments == 2

AudioPath(str, suffix, exists, is_file) ==
    [str |-> str, suffix |-> suffix, exists |-> exists, is_file |-> is_file]

\* Files that pass validate_audio_file.
ValidPaths ==
    { AudioPath("/a/x.mp3", <<".", "m", "p", "3">>, TRUE, TRUE),
      AudioPath("/a/X.OGG", <<".", "O", "G", "G">>, TRUE, TRUE),
      AudioPath("/a/x.opus", <<".", "o", "p", "u", "s">>, TRUE, TRUE) }

\* Paths that do not: no file, a directory, an extension that is not supported
\* or no extension.
InvalidPaths ==
    { AudioPath("/no/x.mp3", <<".", "m", "p", "3">>, FALSE, FALSE),
      AudioPath("/no/x.xyz", <<".", "x", "y", "z">>, FALSE, FALSE),
      AudioPath("/a/d.mp3", <<".", "m", "p", "3">>, TRUE, FALSE),
      AudioPath("/a/x.xyz", <<".", "x", "y", "z">>, TRUE, TRUE),
      AudioPath("/a/x.MP4", <<".", "M", "P", "4">>, TRUE, TRUE),
      AudioPath("/a/x", <<>>, TRUE, TRUE) }

AudioPaths == ValidPaths \cup InvalidPaths

\* The segments the engine yields; the third has a negative start.
EngineSegments ==
    { [start |-> 0, end |-> 5, text |-> <<" ", "H", "i", " ">>],
      [start |-> 5, end |-> 7, text |-> <<"b">>],
      [start |-> 2, end |-> 1, text |-> <<" ">>],
      [start |-> 0 - 1, end |-> 3, text |-> <<"x">>] }

GoodInfo == [language |-> "en", language_probability |-> 1]

\* Infos the TranscriptionResult rejects.
BadInfos ==
    { [language |-> "en", language_probability |-> 2],
      [language |-> "None", language_probability |-> 0] }

\* The exceptions the engine raises, from the call or from its generator.
EngineErrors == {"RuntimeError", "OSError", "ValueError"}

\* The exceptions WhisperModel(...) and its import raise.
LoadErrors == {"RuntimeError", "ImportError", "ValueError"}

\* self.model.transcribe(...) returned (segments_gen, info); the generator
\* yields segs and then, if fails is not "none", raises it.
EngineOutput(segs, fails, info) == [segs |-> segs, fails |-> fails, info |-> info]

NoOutput == EngineOutput(<<>>, "none", GoodInfo)

EngineOutputs ==
    { EngineOutput(segs, fails, GoodInfo) :
        segs \in SeqsUpTo(EngineSegments, MaxSegments),
        fails \in {"none"} \cup EngineErrors }
    \cup { EngineOutput(segs, "none", info) :
             segs \in SeqsUpTo(EngineSegments, 1), info \in BadInfos }

----------------------------------------------------------------------------
(* Inputs of the Task model *)

Absent == [t |-> "absent"]

\* The mapping with the keys of vals whose value is given.
Mapping(vals) == [f \in {k \in DOMAIN vals : vals[k] # Absent} |-> vals[f]]

TitleChoices ==
    { Absent, JNum(1), JStr(<<>>), JStr(<<" ">>), JStr(<<"a">>),
      JStr(<<" ", "\t", "A", " ", "b", "\n", " ">>), JStr(LongTitle) }

PriorityChoices == { Absent, JNull, JNum(1) } \cup { JStr(s) : s \in PriorityStrings }

TagPool ==
    { JStr(<<" ", "G", "o">>), JStr(<<"b", " ">>), JStr(<<>>), JStr(<<"\t">>), JNum(1) }

TagsChoices ==
    { Absent, JNull, JStr(<<"b">>) } \cup { JList(s) : s \in SeqsUpTo(TagPool, MaxTags) }

DueDateChoices ==
    { Absent, JNull, JStr(<<"2025-01-15", "T", "10:00:00">>),
      JStr(<<"2025-01-15", " ", "10:00:00">>), JStr(<<"2025-01-15">>),
      JStr(<<"2025-13-45">>) }

\* The mappings given to the per-record path in the Task model's specification.
KwargsPool ==
    { JDict(Mapping([title |-> ti, priority |-> pr, tags |-> tg, due_date |-> dd])) :
        ti \in TitleChoices, pr \in PriorityChoices,
        tg \in TagsChoices, dd \in DueDateChoices }

----------------------------------------------------------------------------
(* State *)

VARIABLES
    pc,            \* where the caller of extract_tasks is: idle, chat, loop, done
    transcription, \* the argument of the call
    client,        \* TaskExtractor._client: "None" or "Client"
    chat_calls,    \* invocations of client.chat during the call
    chat_error,    \* what client.chat raised during the call, or "none"
    response,      \* the text chat returned, with how the model built it
    parsed,        \* what _parse_llm_response did with it
    task_dicts,    \* the records the loop iterates over
    idx,           \* the position of the loop
    tasks,         \* the local list tasks
    origin,        \* for each element of tasks, the position of its record
    result,        \* how the call ended
    kwargs,        \* Task model: the mapping under normalization
    normalized,    \* Task model: its Task
    renormalized,  \* Task model: the Task of that Task's record
    mpc,           \* Task model: raw, normalized, renormalized_json, renormalized_dump
    client_loads,  \* how many times Client(host=...) was constructed
    config,        \* TaskExtractor._config: model and host
    cpc,           \* where the caller of check_connection is: idle, list, done
    list_outcome,  \* what self.client.list() did
    check_result,  \* how check_connection ended
    tpc,           \* where the caller of transcribe is: idle, model, engine, iterate, done
    audio_path,    \* the path given to transcribe
    t_model,       \* Transcriber._model: "None" or "Model"
    model_at_call, \* Transcriber._model when the call began
    call_loads,    \* invocations of _load_model during the call
    engine_calls,  \* invocations of model.transcribe during the call
    engine_output, \* what model.transcribe returned
    inference_error, \* what the loader, the engine or its generator raised, or "none"
    t_segments,    \* the local list segments
    parts,         \* the local list full_text_parts
    tidx,          \* how many segments the loop has taken from the generator
    t_result,      \* how transcribe ended
    load_failed,   \* whether _load_model has raised on this transcriber
    apc,           \* where extract_tasks_async is: idle, submitted, running, done
    async_arg,     \* the argument of extract_tasks_async
    thread,        \* the thread that runs extract_tasks for it: none, worker
    sync_runs,     \* how many times the submitted callable was run
    async_result,   \* how extract_tasks_async ended
    rpc,           \* where an API route is: idle, transcribe_call, extract_call, done
    request,       \* the HTTP request the route serves
    http,          \* the HTTP response, with the exception it answers
    tmp_file,      \* the temporary file of the upload and the local tmp_path
    cmd,           \* the CLI command that runs: its name, argument and position
    cli_out,       \* what the command printed last and its exit code
    exits,         \* the exception and exit code of every command that failed
    frames,        \* the locals of the call each worker thread of the pool runs
    handles        \* _model and _client of the adapters the API shares

extractorVars ==
    <<pc, transcription, client, chat_calls, chat_error, response, parsed,
      task_dicts, idx, tasks, origin, result, client_loads, config>>

modelVars == <<kwargs, normalized, renormalized, mpc>>

connVars == <<cpc, list_outcome, check_result>>

transcriberVars ==
    <<tpc, audio_path, t_model, model_at_call, call_loads, engine_calls,
      engine_output, inference_error, t_segments, parts, tidx, t_result,
      load_failed>>

asyncVars == <<apc, async_arg, thread, sync_runs, async_result>>

apiVars == <<rpc, request, http, tmp_file>>

cliVars == <<cmd, cli_out, exits>>

poolVars == <<frames, handles>>

\* What an action of extract_tasks leaves alone.
nonExtractorVars == <<modelVars, connVars, transcriberVars, asyncVars, apiVars, cliVars, poolVars>>

vars == <<extractorVars, modelVars, connVars, transcriberVars, asyncVars, apiVars, cliVars, poolVars>>

NoDetails == [k |-> "none", preview |-> <<>>]

NoResult ==
    [kind |-> "none", tasks |-> <<>>, source_audio |-> "None",
     total_duration_seconds |-> "None", language |-> "None",
     error |-> "none", details |-> NoDetails, cause |-> "none"]

NoResponse == Other(<<>>)

NoParse == [kind |-> "none", tier |-> 0, tasks |-> JNull, error |-> "none", preview |-> <<>>]

NoNormalized == [exc |-> "unset", task |-> NoTask]

\* A mutation of the unpacking: the language is not taken from the input.
Unpack_NoLanguage(inp) ==
    [source_audio |-> IF inp.isResult THEN inp.audio_path ELSE "None",
     duration |-> IF inp.isResult THEN inp.duration_seconds ELSE "None",
     language |-> "None"]

\* The locals source_audio, duration and language: those of a
\* TranscriptionResult, None for a str.
Unpack(inp) ==
    IF inp.isResult
    THEN [source_audio |-> inp.audio_path, duration |-> inp.duration_seconds,
          language |-> inp.language]
    ELSE [source_audio |-> "None", duration |-> "None", language |-> "None"]

\* TaskList(tasks=..., source_audio=..., total_duration_seconds=..., language=...)
\* returned for the call's input.
Returned(ts, inp) ==
    [kind |-> "return", tasks |-> ts, source_audio |-> Unpack(inp).source_audio,
     total_duration_seconds |-> Unpack(inp).duration, language |-> Unpack(inp).language,
     error |-> "none", details |-> NoDetails, cause |-> "none"]

\* An exception leaving extract_tasks.
Raised(error, details, cause) ==
    [kind |-> "raise", tasks |-> <<>>, source_audio |-> "None",
     total_duration_seconds |-> "None", language |-> "None",
     error |-> error, details |-> details, cause |-> cause]

\* A mutation of the outer handlers: every exception leaves as it is.
Handled_Bare(error, details) == Raised(error, details, "none")

\* The outer handlers: OllamaConnectionError and TaskExtractionError are
\* re-raised as they are, every other exception is wrapped in a
\* TaskExtractionError whose details name the model.
Handled(error, details) ==
    IF error \in {"OllamaConnectionError", "TaskExtractionError"}
    THEN Raised(error, details, "none")
    ELSE Raised("TaskExtractionError", [k |-> "model", preview |-> <<>>], error)

NoListOutcome == [kind |-> "none", answer |-> JNull, error |-> "none"]

NoCheckResult ==
    [kind |-> "none", value |-> FALSE, error |-> "none", model |-> <<>>,
     host |-> "none", cause |-> "none"]

\* self.client: the client, constructed if self._client is None.
ClientOf(c) == "Client"

\* A mutation of the client property: a new Client at every use.
LoadsAfter_Always(c, n) == n + 1

\* The constructions of Client after a use of self.client.
LoadsAfter(c, n) == IF c = "None" THEN n + 1 ELSE n

ExtractorFresh ==
    /\ pc = "idle"
    /\ transcription = StrInput(<<>>)
    /\ client = "None"
    /\ chat_calls = 0
    /\ chat_error = "none"
    /\ response = NoResponse
    /\ parsed = NoParse
    /\ task_dicts = <<>>
    /\ idx = 0
    /\ tasks = <<>>
    /\ origin = <<>>
    /\ result = NoResult
    /\ client_loads = 0

ConnIdle ==
    /\ cpc = "idle"
    /\ list_outcome = NoListOutcome
    /\ check_result = NoCheckResult

\* Transcriber(): no model yet.
TranscriberInit ==
    /\ tpc = "idle"
    /\ audio_path = AudioPath("None", <<>>, FALSE, FALSE)
    /\ t_model = "None"
    /\ model_at_call = "None"
    /\ call_loads = 0
    /\ engine_calls = 0
    /\ engine_output = NoOutput
    /\ inference_error = "none"
    /\ t_segments = <<>>
    /\ parts = <<>>
    /\ tidx = 0
    /\ t_result = NoTranscription
    /\ load_failed = FALSE

\* No call of extract_tasks_async.
AsyncIdle ==
    /\ apc = "idle"
    /\ async_arg = StrInput(<<>>)
    /\ thread = "none"
    /\ sync_runs = 0
    /\ async_result = NoResult

NoRequest == [endpoint |-> "none", filename |-> <<>>, text |-> <<>>]

NoHttp == [status |-> 0, body |-> "none", error |-> "none", raised |-> "none"]

\* No temporary file: none was created, tmp_path is None.
NoTmpFile == [created |-> FALSE, exists |-> FALSE, tmp_path |-> "None"]

\* No request is being served.
ApiIdle ==
    /\ rpc = "idle"
    /\ request = NoRequest
    /\ http = NoHttp
    /\ tmp_file = NoTmpFile

NoCommand == [name |-> "none", pc |-> "idle", path |-> AudioPath("None", <<>>, FALSE, FALSE),
              input |-> StrInput(<<>>)]

\* Nothing printed, no exit yet.
NoCliOutput == [exit |-> 0 - 1, printed |-> "none", error |-> "none"]

\* No command has run.
CliIdle ==
    /\ cmd = NoCommand
    /\ cli_out = NoCliOutput
    /\ exits = {}

\* Most worker threads of the executor that run calls at the same time.
NWorkers == 2

Workers == 1..NWorkers

\* The adapters get_transcriber() and get_task_extractor() hand to every
\* request: one Transcriber and one TaskExtractor.
Adapters == {"transcriber", "extractor"}

\* The locals of a worker thread that runs no call.
NoFrame ==
    [pc |-> "idle", adapter |-> "none", input |-> StrInput(<<>>), loaded |-> 0,
     used |-> 0, response |-> NoResponse, error |-> "none", task_dicts |-> <<>>,
     idx |-> 0, tasks |-> <<>>, result |-> NoResult]

\* An adapter as constructed: _model (_client) is None, written 0, and no
\* handle was created for it.
NoHandle == [handle |-> 0, created |-> 0]

PoolIdle ==
    /\ frames = [w \in Workers |-> NoFrame]
    /\ handles = [a \in Adapters |-> NoHandle]

\* TaskExtractor() with the default configuration, next to a Transcriber().
ExtractorInit ==
    /\ ExtractorFresh /\ config = DefaultConfig /\ ConnIdle /\ TranscriberInit
    /\ AsyncIdle /\ ApiIdle /\ CliIdle /\ PoolIdle

ModelIdle ==
    /\ kwargs = JNull
    /\ normalized = NoNormalized
    /\ renormalized = NoNormalized
    /\ mpc = "off"

Init == ExtractorInit /\ ModelIdle

\* extract_tasks(transcription) up to the chat call: the input is unpacked and
\* an empty text returns an empty TaskList at once.
ExtractTasks(inp) ==
    /\ pc = "idle"
    /\ cpc = "idle"
    /\ tpc = "idle"
    /\ transcription' = inp
    /\ IF text_is_empty(inp.text)
       THEN /\ result' = Returned(<<>>, inp)
            /\ pc' = "done"
       ELSE /\ result' = NoResult
            /\ pc' = "chat"
    /\ UNCHANGED <<client, chat_calls, chat_error, response, parsed, task_dicts,
                   idx, tasks, origin, client_loads, config, nonExtractorVars>>

\* self.client.chat(...) returns resp; the response is parsed and the loop set up.
ChatReturns(resp) ==
    /\ pc = "chat"
    /\ client' = ClientOf(client)
    /\ client_loads' = LoadsAfter(client, client_loads)
    /\ chat_calls' = chat_calls + 1
    /\ response' = resp
    /\ LET p == parse_llm_response(resp.text) IN
       /\ parsed' = p
       /\ IF p.kind = "raise"
          THEN /\ result' = Handled(p.error, [k |-> "response_preview", preview |-> p.preview])
               /\ pc' = "done"
               /\ UNCHANGED <<task_dicts, idx>>
          ELSE IF ~Iterable(p.tasks)
          THEN /\ result' = Handled("TypeError", NoDetails)
               /\ pc' = "done"
               /\ UNCHANGED <<task_dicts, idx>>
          ELSE /\ task_dicts' = IterItems(p.tasks)
               /\ idx' = 1
               /\ pc' = "loop"
               /\ UNCHANGED result
    /\ UNCHANGED <<transcription, chat_error, tasks, origin, config, nonExtractorVars>>

\* A mutation of the handlers: the chat call is made again after it raised.
after_chat_raises_again(e) == "chat"

\* Where extract_tasks is after chat raised e: both except clauses raise, so
\* the call is over.
after_chat_raises(e) == "done"

\* self.client.chat(...) raises e.
ChatRaises(e) ==
    /\ pc = "chat"
    /\ client' = ClientOf(client)
    /\ client_loads' = LoadsAfter(client, client_loads)
    /\ chat_calls' = chat_calls + 1
    /\ chat_error' = e
    /\ result' = Handled(e, NoDetails)
    /\ pc' = after_chat_raises(e)
    /\ UNCHANGED <<transcription, response, parsed, task_dicts, idx, tasks, origin,
                   config, nonExtractorVars>>

\* One iteration of "for task_dict in task_dicts".
NormalizeStep ==
    /\ pc = "loop"
    /\ idx <= Len(task_dicts)
    /\ LET r == normalize_record(task_dicts[idx]) IN
       IF r.exc = "none"
       THEN /\ tasks' = AppendTask(tasks, r.task)
            /\ origin' = AppendTask(origin, idx)
            /\ idx' = idx + 1
            /\ UNCHANGED <<pc, result>>
       ELSE IF Skips(r.exc)
       THEN /\ idx' = idx + 1
            /\ UNCHANGED <<tasks, origin, pc, result>>
       ELSE /\ result' = Handled(r.exc, NoDetails)
            /\ pc' = "done"
            /\ UNCHANGED <<tasks, origin, idx>>
    /\ UNCHANGED <<transcription, client, chat_calls, chat_error, response, parsed,
                   task_dicts, client_loads, config, nonExtractorVars>>

\* The loop is over: return TaskList(tasks=tasks, ...).
ReturnTaskList ==
    /\ pc = "loop"
    /\ idx > Len(task_dicts)
    /\ result' = Returned(tasks, transcription)
    /\ pc' = "done"
    /\ UNCHANGED <<transcription, client, chat_calls, chat_error, response, parsed,
                   task_dicts, idx, tasks, origin, client_loads, config,
                   nonExtractorVars>>

\* The caller takes the result; the locals of the call are gone and the
\* extractor, with its client, is ready for the next call.
NextCall ==
    /\ pc = "done"
    /\ pc' = "idle"
    /\ transcription' = StrInput(<<>>)
    /\ chat_calls' = 0
    /\ chat_error' = "none"
    /\ response' = NoResponse
    /\ parsed' = NoParse
    /\ task_dicts' = <<>>
    /\ idx' = 0
    /\ tasks' = <<>>
    /\ origin' = <<>>
    /\ result' = NoResult
    /\ UNCHANGED <<client, client_loads, config, nonExtractorVars>>

Next ==
    \/ \E inp \in Transcriptions : ExtractTasks(inp)
    \/ \E resp \in Responses : ChatReturns(resp)
    \/ \E e \in ChatErrors : ChatRaises(e)
    \/ NormalizeStep
    \/ ReturnTaskList
    \/ NextCall

Spec == Init /\ [][Next]_vars

----------------------------------------------------------------------------
(* The Task model alone: one mapping through the per-record path, then the   *)
(* record of the resulting Task through it again.                            *)

TaskInit ==
    /\ ExtractorInit
    /\ kwargs \in KwargsPool
    /\ normalized = NoNormalized
    /\ renormalized = NoNormalized
    /\ mpc = "raw"

\* The loop body on kwargs.
NormalizeOne ==
    /\ mpc = "raw"
    /\ normalized' = normalize_record(kwargs)
    /\ mpc' = "normalized"
    /\ UNCHANGED <<kwargs, renormalized, extractorVars, connVars, transcriberVars,
                   asyncVars, apiVars, cliVars, poolVars>>

\* The loop body on the record of the Task it produced, the record being the
\* Task's JSON (model_dump_json, read back).
RenormalizeJson ==
    /\ mpc = "normalized"
    /\ normalized.exc = "none"
    /\ renormalized' = normalize_record(JDict(model_dump_json(normalized.task)))
    /\ mpc' = "renormalized_json"
    /\ UNCHANGED <<kwargs, normalized, extractorVars, connVars, transcriberVars,
                   asyncVars, apiVars, cliVars, poolVars>>

\* The same, the record being the Task's fields (model_dump).
RenormalizeDump ==
    /\ mpc = "normalized"
    /\ normalized.exc = "none"
    /\ renormalized' = normalize_record(JDict(model_dump(normalized.task)))
    /\ mpc' = "renormalized_dump"
    /\ UNCHANGED <<kwargs, normalized, extractorVars, connVars, transcriberVars,
                   asyncVars, apiVars, cliVars, poolVars>>

TaskNext == NormalizeOne \/ RenormalizeJson \/ RenormalizeDump

TaskSpec == TaskInit /\ [][TaskNext]_vars

----------------------------------------------------------------------------
(* check_connection on extractors of every configuration *)

ConnInit ==
    /\ ExtractorFresh
    /\ config \in Configs
    /\ ConnIdle
    /\ ModelIdle
    /\ TranscriberInit
    /\ AsyncIdle
    /\ ApiIdle
    /\ CliIdle
    /\ PoolIdle

\* check_connection() up to the model-list query; self.client is used.
CheckConnection ==
    /\ pc = "idle"
    /\ cpc = "idle"
    /\ tpc = "idle"
    /\ cpc' = "list"
    /\ client' = ClientOf(client)
    /\ client_loads' = LoadsAfter(client, client_loads)
    /\ UNCHANGED <<pc, transcription, chat_calls, chat_error, response, parsed,
                   task_dicts, idx, tasks, origin, result, config,
                   list_outcome, check_result, modelVars, transcriberVars,
                   asyncVars, apiVars, cliVars, poolVars>>

\* self.client.list() returns answer: the rest of the try block runs.
ListReturns(answer) ==
    /\ cpc = "list"
    /\ list_outcome' = [kind |-> "answer", answer |-> answer, error |-> "none"]
    /\ check_result' = check_answer(config, answer)
    /\ cpc' = "done"
    /\ UNCHANGED <<extractorVars, modelVars, transcriberVars, asyncVars, apiVars, cliVars, poolVars>>

\* self.client.list() raises e.
ListRaises(e) ==
    /\ cpc = "list"
    /\ list_outcome' = [kind |-> "raise", answer |-> JNull, error |-> e]
    /\ check_result' = check_handlers(config, e)
    /\ cpc' = "done"
    /\ UNCHANGED <<extractorVars, modelVars, transcriberVars, asyncVars, apiVars, cliVars, poolVars>>

\* The caller takes the outcome; the extractor is ready for the next call.
NextCheck ==
    /\ cpc = "done"
    /\ cpc' = "idle"
    /\ list_outcome' = NoListOutcome
    /\ check_result' = NoCheckResult
    /\ UNCHANGED <<extractorVars, modelVars, transcriberVars, asyncVars, apiVars, cliVars, poolVars>>

ConnNext ==
    \/ CheckConnection
    \/ \E answer \in ListAnswers \cup MalformedAnswers : ListReturns(answer)
    \/ \E e \in ListErrors : ListRaises(e)
    \/ NextCheck

ConnSpec == ConnInit /\ [][ConnNext]_vars

----------------------------------------------------------------------------
(* Transcriber.transcribe *)

\* What an action of transcribe leaves alone.
nonTranscriberVars == <<extractorVars, modelVars, connVars, asyncVars, apiVars, cliVars, poolVars>>

\* A mutation of _load_model: the exception leaves as it is.
load_model_error_bare(e) == e

\* _load_model: every exception of the import and of WhisperModel(...) leaves
\* as ModelLoadError.
load_model_error(e) == "ModelLoadError"

\* transcribe(audio_path) up to the use of self.model: the file is validated
\* outside the try block, so what validation raises leaves as it is.
Transcribe(path) ==
    /\ tpc = "idle"
    /\ pc = "idle"
    /\ cpc = "idle"
    /\ audio_path' = path
    /\ model_at_call' = t_model
    /\ LET v == validate_audio_file(path) IN
       IF v # "none"
       THEN /\ t_result' = TranscribeRaised(v, "none", "none")
            /\ tpc' = "done"
       ELSE /\ t_result' = NoTranscription
            /\ tpc' = "model"
    /\ UNCHANGED <<load_failed, t_model, call_loads, engine_calls, engine_output, t_segments,
                   parts, tidx, inference_error,
                   nonTranscriberVars>>

\* self.model with a model already loaded.
UseModel ==
    /\ tpc = "model"
    /\ t_model # "None"
    /\ tpc' = "engine"
    /\ UNCHANGED <<load_failed, audio_path, t_model, model_at_call, call_loads, engine_calls,
                   engine_output, t_segments, parts, tidx, t_result,
                   inference_error,
                   nonTranscriberVars>>

\* self.model with no model: _load_model() returns one, which is kept.
LoadModelReturns ==
    /\ tpc = "model"
    /\ t_model = "None"
    /\ t_model' = "Model"
    /\ call_loads' = call_loads + 1
    /\ tpc' = "engine"
    /\ UNCHANGED <<load_failed, audio_path, model_at_call, engine_calls, engine_output,
                   t_segments, parts, tidx, t_result, inference_error,
                   nonTranscriberVars>>

\* self.model with no model: _load_model() fails on e.
LoadModelRaises(e) ==
    /\ tpc = "model"
    /\ t_model = "None"
    /\ call_loads' = call_loads + 1
    /\ inference_error' = e
    /\ load_failed' = TRUE
    /\ t_result' = transcribe_handlers(audio_path, load_model_error(e))
    /\ tpc' = "done"
    /\ UNCHANGED <<audio_path, t_model, model_at_call, engine_calls, engine_output,
                   t_segments, parts, tidx, nonTranscriberVars>>

\* self.model.transcribe(...) returns out.
EngineReturns(out) ==
    /\ tpc = "engine"
    /\ engine_calls' = engine_calls + 1
    /\ engine_output' = out
    /\ t_segments' = <<>>
    /\ parts' = <<>>
    /\ tidx' = 0
    /\ tpc' = "iterate"
    /\ UNCHANGED <<load_failed, audio_path, t_model, model_at_call, call_loads, t_result,
                   inference_error,
                   nonTranscriberVars>>

\* self.model.transcribe(...) raises e.
EngineRaises(e) ==
    /\ tpc = "engine"
    /\ engine_calls' = engine_calls + 1
    /\ inference_error' = e
    /\ t_result' = transcribe_handlers(audio_path, e)
    /\ tpc' = "done"
    /\ UNCHANGED <<load_failed, audio_path, t_model, model_at_call, call_loads, engine_output,
                   t_segments, parts, tidx, nonTranscriberVars>>

\* One iteration of "for segment in segments_gen".
SegmentStep ==
    /\ tpc = "iterate"
    /\ tidx < Len(engine_output.segs)
    /\ LET s == make_segment(engine_output.segs[tidx + 1]) IN
       IF s.exc = "none"
       THEN /\ t_segments' = Append(t_segments, s.seg)
            /\ parts' = Append(parts, s.seg.text)
            /\ tidx' = tidx + 1
            /\ UNCHANGED <<tpc, t_result>>
       ELSE /\ t_result' = transcribe_handlers(audio_path, s.exc)
            /\ tpc' = "done"
            /\ UNCHANGED <<t_segments, parts, tidx>>
    /\ UNCHANGED <<load_failed, audio_path, t_model, model_at_call, call_loads, engine_calls,
                   engine_output, inference_error,
                   nonTranscriberVars>>

\* The generator raises instead of yielding or ending.
GeneratorRaises ==
    /\ tpc = "iterate"
    /\ tidx = Len(engine_output.segs)
    /\ engine_output.fails # "none"
    /\ inference_error' = engine_output.fails
    /\ t_result' = transcribe_handlers(audio_path, engine_output.fails)
    /\ tpc' = "done"
    /\ UNCHANGED <<load_failed, audio_path, t_model, model_at_call, call_loads, engine_calls,
                   engine_output, t_segments, parts, tidx, nonTranscriberVars>>

\* The generator is exhausted: the TranscriptionResult is built and returned.
ReturnTranscription ==
    /\ tpc = "iterate"
    /\ tidx = Len(engine_output.segs)
    /\ engine_output.fails = "none"
    /\ LET r == make_result(audio_path, t_segments, parts, engine_output.info) IN
       t_result' = IF r.exc = "none" THEN r.res
                   ELSE transcribe_handlers(audio_path, r.exc)
    /\ tpc' = "done"
    /\ UNCHANGED <<load_failed, audio_path, t_model, model_at_call, call_loads, engine_calls,
                   engine_output, t_segments, parts, tidx, inference_error,
                   nonTranscriberVars>>

\* The caller takes the outcome; the transcriber, with its model, is ready
\* for the next call.
NextTranscribe ==
    /\ tpc = "done"
    /\ tpc' = "idle"
    /\ audio_path' = AudioPath("None", <<>>, FALSE, FALSE)
    /\ model_at_call' = "None"
    /\ call_loads' = 0
    /\ engine_calls' = 0
    /\ engine_output' = NoOutput
    /\ inference_error' = "none"
    /\ t_segments' = <<>>
    /\ parts' = <<>>
    /\ tidx' = 0
    /\ t_result' = NoTranscription
    /\ UNCHANGED <<load_failed, t_model, nonTranscriberVars>>

TranscriberNext ==
    \/ \E path \in AudioPaths : Transcribe(path)
    \/ UseModel
    \/ LoadModelReturns
    \/ \E e \in LoadErrors : LoadModelRaises(e)
    \/ \E out \in EngineOutputs : EngineReturns(out)
    \/ \E e \in EngineErrors : EngineRaises(e)
    \/ SegmentStep
    \/ GeneratorRaises
    \/ ReturnTranscription
    \/ NextTranscribe

TranscriberSpec == Init /\ [][TranscriberNext]_vars

----------------------------------------------------------------------------
(* One TaskExtractor and one Transcriber over their lifetime: calls of        *)
(* extract_tasks, check_connection and transcribe, one after the other.       *)

LifeTranscriptions == { StrInput(<<>>), StrInput(<<" ", "x", "\n">>) }

LifeResponses ==
    { Wrapped([style |-> "plain", pre |-> <<>>, post |-> <<>>], recs) :
        recs \in SeqsUpTo(WrapRecords, 1) }
    \cup { Other(<<Word, WS, Word>>) }

LifeAnswers ==
    { JDict([models |-> JList(es)]) : es \in SeqsUpTo(ModelEntries, 1) }

LifeOutputs ==
    { EngineOutput(segs, fails, GoodInfo) :
        segs \in SeqsUpTo(EngineSegments, 1), fails \in {"none", "RuntimeError"} }

LifeNext ==
    \/ \E inp \in LifeTranscriptions : ExtractTasks(inp)
    \/ \E resp \in LifeResponses : ChatReturns(resp)
    \/ \E e \in ChatErrors : ChatRaises(e)
    \/ NormalizeStep
    \/ ReturnTaskList
    \/ NextCall
    \/ CheckConnection
    \/ \E answer \in LifeAnswers : ListReturns(answer)
    \/ \E e \in ListErrors : ListRaises(e)
    \/ NextCheck
    \/ \E path \in AudioPaths : Transcribe(path)
    \/ UseModel
    \/ LoadModelReturns
    \/ \E e \in LoadErrors : LoadModelRaises(e)
    \/ \E out \in LifeOutputs : EngineReturns(out)
    \/ \E e \in EngineErrors : EngineRaises(e)
    \/ SegmentStep
    \/ GeneratorRaises
    \/ ReturnTranscription
    \/ NextTranscribe

LifeSpec == Init /\ [][LifeNext]_vars

----------------------------------------------------------------------------
(* TaskExtractor.extract_tasks_async *)

\* A mutation of the callable: extract_tasks is given the text alone.
AsyncArgument_TextOnly(inp) == StrInput(inp.text)

\* lambda: self.extract_tasks(transcription): the argument extract_tasks gets.
AsyncArgument(inp) == inp

\* extract_tasks_async(inp) up to the await: the callable is handed to the
\* loop's default executor.
ExtractTasksAsync(inp) ==
    /\ apc = "idle"
    /\ pc = "idle"
    /\ apc' = "submitted"
    /\ async_arg' = inp
    /\ UNCHANGED <<thread, sync_runs, async_result, extractorVars, modelVars,
                   connVars, transcriberVars, apiVars, cliVars, poolVars>>

\* A thread of the executor takes the callable and calls it.
WorkerStarts ==
    /\ apc = "submitted"
    /\ apc' = "running"
    /\ thread' = "worker"
    /\ sync_runs' = sync_runs + 1
    /\ UNCHANGED <<async_arg, async_result, extractorVars, modelVars, connVars,
                   transcriberVars, apiVars, cliVars, poolVars>>

\* extract_tasks is over on the worker: the future has its outcome and the
\* await returns it or raises it.
FutureResolves ==
    /\ apc = "running"
    /\ pc = "done"
    /\ async_result' = result
    /\ apc' = "done"
    /\ UNCHANGED <<async_arg, thread, sync_runs, extractorVars, modelVars, connVars,
                   transcriberVars, apiVars, cliVars, poolVars>>

\* The caller takes the outcome of the coroutine.
NextAsync ==
    /\ apc = "done"
    /\ pc = "idle"
    /\ apc' = "idle"
    /\ async_arg' = StrInput(<<>>)
    /\ thread' = "none"
    /\ sync_runs' = 0
    /\ async_result' = NoResult
    /\ UNCHANGED <<extractorVars, modelVars, connVars, transcriberVars, apiVars, cliVars, poolVars>>

AsyncNext ==
    \/ \E inp \in Transcriptions : ExtractTasksAsync(inp)
    \/ WorkerStarts
    \/ apc = "running" /\ ExtractTasks(AsyncArgument(async_arg))
    \/ apc = "running" /\ \E resp \in Responses : ChatReturns(resp)
    \/ apc = "running" /\ \E e \in ChatErrors : ChatRaises(e)
    \/ apc = "running" /\ NormalizeStep
    \/ apc = "running" /\ ReturnTaskList
    \/ FutureResolves
    \/ apc = "done" /\ NextCall
    \/ NextAsync

AsyncSpec == Init /\ [][AsyncNext]_vars

----------------------------------------------------------------------------
(* The REST API: POST /api/transcribe, /api/tasks/extract and /api/process   *)

\* Path(name).suffix: from the last dot of the name on, nothing if the name's
\* only dot leads it or ends it.
PathSuffix(name) ==
    LET dots == {i \in 1..Len(name) : name[i] = "."}
    IN  IF dots = {} THEN <<>>
        ELSE IF SetMax(dots) = 1 \/ SetMax(dots) = Len(name) THEN <<>>
        ELSE SubSeq(name, SetMax(dots), Len(name))

\* file.filename or ".wav"
FilenameOr(name) == IF name = <<>> THEN <<".", "w", "a", "v">> ELSE name

\* The file tempfile.NamedTemporaryFile(suffix=suffix, delete=False) makes.
TmpPath(suffix) == AudioPath("tmp", suffix, TRUE, TRUE)

\* The subclasses of TranscriptionError, itself included.
IsTranscriptionError(e) == e \in {"TranscriptionError", "UnsupportedAudioFormatError"}

\* The subclasses of TaskExtractionError, itself included.
IsTaskExtractionError(e) ==
    e \in {"TaskExtractionError", "OllamaConnectionError", "OllamaModelNotFoundError"}

\* raise HTTPException(status, detail): the response has the status and the
\* detail, which holds the message of error; raised is the exception the
\* route caught, "none" if it caught none.
HTTPException(status, error, raised) ==
    [status |-> status, body |-> "detail", error |-> error, raised |-> raised]

\* The route returns its response model.
OkResponse == [status |-> 200, body |-> "json", error |-> "none", raised |-> "none"]

\* The request does not fit the route's parameters: FastAPI answers before
\* the route runs.
Unprocessable ==
    [status |-> 422, body |-> "detail", error |-> "RequestValidationError",
     raised |-> "none"]

\* No except clause of the route matches e: it leaves the route, and the
\* application, which registers no exception handler, answers with the
\* server error of the framework, whose body does not hold the message.
Unhandled(e) ==
    [status |-> 500, body |-> "Internal Server Error", error |-> "none", raised |-> e]

\* The except clauses of transcribe_audio.
transcribe_route_handlers(e) ==
    IF e = "UnsupportedAudioFormatError" THEN HTTPException(400, e, e)
    ELSE IF IsTranscriptionError(e) THEN HTTPException(500, e, e)
    ELSE Unhandled(e)

\* The except clause of extract_tasks_from_text.
extract_route_handlers(e) ==
    IF IsTaskExtractionError(e) THEN HTTPException(500, e, e) ELSE Unhandled(e)

\* The except clause of process_audio.
process_route_handlers(e) ==
    IF IsTranscriptionError(e) \/ IsTaskExtractionError(e)
    THEN HTTPException(500, e, e)
    ELSE Unhandled(e)

\* The TranscriptionResult, as the argument of extract_tasks_async.
AsInput(res) ==
    [isResult |-> TRUE, text |-> res.text, audio_path |-> res.audio_path,
     duration_seconds |-> res.duration_seconds, language |-> res.language]

\* tempfile.NamedTemporaryFile(suffix=suffix, delete=False): the file is on
\* disk; the local tmp_path is still None.
CreatedTmpFile == [created |-> TRUE, exists |-> TRUE, tmp_path |-> "None"]

\* tmp_path = Path(tmp_file.name)
AssignTmpPath(f) == [f EXCEPT !.tmp_path = "Path"]

\* finally: if tmp_path and tmp_path.exists(): tmp_path.unlink()
Finally(f) ==
    IF f.tmp_path # "None" /\ f.exists THEN [f EXCEPT !.exists = FALSE] ELSE f

\* What file.read() and tmp_file.write(content) raise.
UploadErrors == {"OSError"}

\* Names of uploaded files: none, supported extensions in both cases, an
\* extension that is not supported, no extension.
Filenames ==
    { <<>>, <<"a", ".", "w", "a", "v">>, <<"A", ".", "O", "G", "G">>,
      <<"a", ".", "x", "y", "z">>, <<"a">> }

\* Texts of an ExtractTasksRequest.
RequestTexts == { <<>>, <<" ">>, <<" ", "x", "\n">> }

Request(endpoint, filename, text) ==
    [endpoint |-> endpoint, filename |-> filename, text |-> text]

\* No call is under way on the transcriber or on the extractor.
ServicesIdle ==
    /\ tpc = "idle"
    /\ pc = "idle"
    /\ cpc = "idle"
    /\ apc = "idle"

nonApiVars ==
    <<extractorVars, modelVars, connVars, transcriberVars, asyncVars, cliVars, poolVars>>

\* transcribe_audio up to the temporary file: a request with no filename or
\* with an extension outside Transcriber.SUPPORTED_FORMATS is answered 400.
PostTranscribe(name) ==
    /\ rpc = "idle"
    /\ ServicesIdle
    /\ request' = Request("/api/transcribe", name, <<>>)
    /\ IF name = <<>>
       THEN /\ http' = HTTPException(400, "No filename provided", "none")
            /\ rpc' = "done"
            /\ UNCHANGED tmp_file
       ELSE IF LstripDot(Lower(PathSuffix(name))) \notin SUPPORTED_FORMATS
       THEN /\ http' = HTTPException(400, "Unsupported format", "none")
            /\ rpc' = "done"
            /\ UNCHANGED tmp_file
       ELSE /\ http' = NoHttp
            /\ rpc' = "upload"
            /\ tmp_file' = CreatedTmpFile
    /\ UNCHANGED nonApiVars

\* extract_tasks_from_text up to the call: ExtractTasksRequest.text has
\* min_length=1.
PostExtract(text) ==
    /\ rpc = "idle"
    /\ ServicesIdle
    /\ request' = Request("/api/tasks/extract", <<>>, text)
    /\ IF Len(text) < 1
       THEN /\ http' = Unprocessable
            /\ rpc' = "done"
       ELSE /\ http' = NoHttp
            /\ rpc' = "extract_call"
    /\ UNCHANGED <<tmp_file, nonApiVars>>

\* process_audio up to the temporary file: the name is not examined.
PostProcess(name) ==
    /\ rpc = "idle"
    /\ ServicesIdle
    /\ request' = Request("/api/process", name, <<>>)
    /\ http' = NoHttp
    /\ rpc' = "upload"
    /\ tmp_file' = CreatedTmpFile
    /\ UNCHANGED nonApiVars

\* The upload is read and written to the temporary file, whose path is kept
\* in tmp_path.
UploadStored ==
    /\ rpc = "upload"
    /\ tmp_file' = AssignTmpPath(tmp_file)
    /\ rpc' = "transcribe_call"
    /\ UNCHANGED <<request, http, nonApiVars>>

\* file.read() or tmp_file.write(content) raises e inside the with block: no
\* except clause of either route matches it, and the finally clause runs.
UploadFails(e) ==
    /\ rpc = "upload"
    /\ http' = IF request.endpoint = "/api/process" THEN process_route_handlers(e)
               ELSE transcribe_route_handlers(e)
    /\ tmp_file' = Finally(tmp_file)
    /\ rpc' = "done"
    /\ UNCHANGED <<request, nonApiVars>>

\* The path the route gives to transcribe_async, which runs transcribe on it
\* in the executor and returns or raises what it does.
tmp_path(req) ==
    IF req.endpoint = "/api/process"
    THEN TmpPath(Lower(PathSuffix(FilenameOr(req.filename))))
    ELSE TmpPath(Lower(PathSuffix(req.filename)))

\* transcribe_audio after the await.
TranscribeResponds ==
    /\ rpc = "transcribe_call"
    /\ request.endpoint = "/api/transcribe"
    /\ tpc = "done"
    /\ http' = IF t_result.kind = "return" THEN OkResponse
               ELSE transcribe_route_handlers(t_result.error)
    /\ tmp_file' = Finally(tmp_file)
    /\ rpc' = "done"
    /\ UNCHANGED <<request, nonApiVars>>

\* process_audio after the first await: the exception of transcribe_async is
\* answered, its result goes on to extract_tasks_async.
ProcessTranscribed ==
    /\ rpc = "transcribe_call"
    /\ request.endpoint = "/api/process"
    /\ tpc = "done"
    /\ IF t_result.kind = "return"
       THEN /\ rpc' = "extract_call"
            /\ UNCHANGED <<http, tmp_file>>
       ELSE /\ http' = process_route_handlers(t_result.error)
            /\ tmp_file' = Finally(tmp_file)
            /\ rpc' = "done"
    /\ UNCHANGED <<request, nonApiVars>>

\* extract_tasks_from_text after the await.
ExtractResponds ==
    /\ rpc = "extract_call"
    /\ request.endpoint = "/api/tasks/extract"
    /\ apc = "done"
    /\ http' = IF async_result.kind = "return" THEN OkResponse
               ELSE extract_route_handlers(async_result.error)
    /\ rpc' = "done"
    /\ UNCHANGED <<request, tmp_file, nonApiVars>>

\* process_audio after the second await.
ProcessResponds ==
    /\ rpc = "extract_call"
    /\ request.endpoint = "/api/process"
    /\ apc = "done"
    /\ http' = IF async_result.kind = "return" THEN OkResponse
               ELSE process_route_handlers(async_result.error)
    /\ tmp_file' = Finally(tmp_file)
    /\ rpc' = "done"
    /\ UNCHANGED <<request, nonApiVars>>

\* The response is sent; the next request can be served.
NextRequest ==
    /\ rpc = "done"
    /\ ServicesIdle
    /\ rpc' = "idle"
    /\ request' = NoRequest
    /\ http' = NoHttp
    /\ tmp_file' = NoTmpFile
    /\ UNCHANGED nonApiVars

ApiNext ==
    \/ \E name \in Filenames : PostTranscribe(name)
    \/ \E text \in RequestTexts : PostExtract(text)
    \/ \E name \in Filenames : PostProcess(name)
    \/ UploadStored
    \/ \E e \in UploadErrors : UploadFails(e)
    \/ rpc = "transcribe_call" /\ Transcribe(tmp_path(request))
    \/ UseModel
    \/ LoadModelReturns
    \/ \E e \in LoadErrors : LoadModelRaises(e)
    \/ \E out \in LifeOutputs : EngineReturns(out)
    \/ \E e \in EngineErrors : EngineRaises(e)
    \/ SegmentStep
    \/ GeneratorRaises
    \/ ReturnTranscription
    \/ TranscribeResponds
    \/ ProcessTranscribed
    \/ /\ rpc = "extract_call"
       /\ request.endpoint = "/api/process"
       /\ tpc = "done"
       /\ ExtractTasksAsync(AsInput(t_result))
    \/ /\ rpc = "extract_call"
       /\ request.endpoint = "/api/tasks/extract"
       /\ ExtractTasksAsync(StrInput(request.text))
    \/ (rpc = "done" \/ apc # "idle") /\ NextTranscribe
    \/ WorkerStarts
    \/ apc = "running" /\ ExtractTasks(AsyncArgument(async_arg))
    \/ apc = "running" /\ \E resp \in LifeResponses : ChatReturns(resp)
    \/ apc = "running" /\ \E e \in ChatErrors : ChatRaises(e)
    \/ apc = "running" /\ NormalizeStep
    \/ apc = "running" /\ ReturnTaskList
    \/ FutureResolves
    \/ apc = "done" /\ NextCall
    \/ ExtractResponds
    \/ ProcessResponds
    \/ rpc = "done" /\ NextAsync
    \/ NextRequest

ApiSpec == Init /\ [][ApiNext]_vars

----------------------------------------------------------------------------
(* The CLI: transcribe file, extract text, process file and health *)

\* The command ends with this exit code, having printed this; error is the
\* exception that ended it, "none" if none did.
Exit(code, printed, error) == [exit |-> code, printed |-> printed, error |-> error]

\* print_error(prefix + e.message); raise typer.Exit(1)
FailedExit(prefix, e) == Exit(1, prefix, e)

\* No except clause of the command matches e: the interpreter prints the
\* traceback and the process ends with status 1.
Uncaught(e) == Exit(1, "Traceback", e)

\* typer.Argument(exists=True, dir_okay=False) rejects the path before the
\* command runs: usage error, status 2.
UsageError == Exit(2, "Usage", "none")

\* The command ran to its end.
Completed == Exit(0, "output", "none")

\* The except clause of transcribe_file and the first of process_file.
transcribe_file_handlers(e) ==
    IF IsTranscriptionError(e) THEN FailedExit("Transcription failed: ", e)
    ELSE Uncaught(e)

\* The except clause of extract_from_text.
extract_text_handlers(e) ==
    IF IsTaskExtractionError(e) THEN FailedExit("Extraction failed: ", e)
    ELSE Uncaught(e)

\* The second except clause of process_file.
process_file_handlers(e) ==
    IF IsTaskExtractionError(e) THEN FailedExit("Task extraction failed: ", e)
    ELSE Uncaught(e)

\* "except Exception" of health.
health_handlers(e) == FailedExit("Ollama: Failed - ", e)

\* The failures so far, with the one of out.
Recorded(out) ==
    IF out.error = "none" THEN exits
    ELSE exits \cup {[error |-> out.error, code |-> out.exit]}

Command(name, at, path, input) ==
    [name |-> name, pc |-> at, path |-> path, input |-> input]

\* The state of a call on the transcriber, its model handle apart.
transcriberLocals ==
    <<tpc, audio_path, model_at_call, call_loads, engine_calls, engine_output,
      inference_error, t_segments, parts, tidx, t_result>>

\* The state of a call on the extractor, its client handle apart.
extractorLocals ==
    <<pc, transcription, chat_calls, chat_error, response, parsed, task_dicts,
      idx, tasks, origin, result>>

\* Transcriber(config): a transcriber with no model.
NewTranscriber ==
    /\ t_model' = "None"
    /\ load_failed' = FALSE
    /\ UNCHANGED transcriberLocals

\* TaskExtractor(): an extractor of the default configuration with no client.
NewExtractor ==
    /\ client' = "None"
    /\ client_loads' = 0
    /\ config' = DefaultConfig
    /\ UNCHANGED extractorLocals

\* No command and no request is being served.
CliReady ==
    /\ cmd.pc = "idle"
    /\ rpc = "idle"
    /\ ServicesIdle

\* The command ends with out.
Finish(out) ==
    /\ cli_out' = out
    /\ exits' = Recorded(out)

\* "transcribe file PATH" up to the call of transcribe.
CliTranscribeFile(path) ==
    /\ CliReady
    /\ IF ~path.exists \/ ~path.is_file
       THEN /\ cmd' = Command("transcribe", "done", path, StrInput(<<>>))
            /\ Finish(UsageError)
            /\ UNCHANGED transcriberVars
       ELSE /\ cmd' = Command("transcribe", "transcribe_call", path, StrInput(<<>>))
            /\ NewTranscriber
            /\ UNCHANGED <<cli_out, exits>>
    /\ UNCHANGED <<extractorVars, modelVars, connVars, asyncVars, apiVars, poolVars>>

\* "extract text TEXT" up to the call of extract_tasks.
CliExtractText(text) ==
    /\ CliReady
    /\ IF text = <<>>
       THEN /\ cmd' = Command("extract", "done", NoCommand.path, StrInput(text))
            /\ Finish(Exit(1, "Provide text argument or --file option", "none"))
            /\ UNCHANGED extractorVars
       ELSE /\ cmd' = Command("extract", "extract_call", NoCommand.path, StrInput(text))
            /\ NewExtractor
            /\ UNCHANGED <<cli_out, exits>>
    /\ UNCHANGED <<modelVars, connVars, transcriberVars, asyncVars, apiVars, poolVars>>

\* "process file PATH" up to the call of transcribe.
CliProcessFile(path) ==
    /\ CliReady
    /\ IF ~path.exists \/ ~path.is_file
       THEN /\ cmd' = Command("process", "done", path, StrInput(<<>>))
            /\ Finish(UsageError)
            /\ UNCHANGED <<transcriberVars, extractorVars>>
       ELSE /\ cmd' = Command("process", "transcribe_call", path, StrInput(<<>>))
            /\ NewTranscriber
            /\ NewExtractor
            /\ UNCHANGED <<cli_out, exits>>
    /\ UNCHANGED <<modelVars, connVars, asyncVars, apiVars, poolVars>>

\* "health" up to the call of check_connection.
CliHealth ==
    /\ CliReady
    /\ cmd' = Command("health", "check_call", NoCommand.path, StrInput(<<>>))
    /\ NewExtractor
    /\ UNCHANGED <<cli_out, exits, modelVars, connVars, transcriberVars, asyncVars,
                   apiVars, poolVars>>

nonCliVars ==
    <<extractorVars, modelVars, connVars, transcriberVars, asyncVars, apiVars, poolVars>>

\* transcribe_file after transcribe.
CliTranscribed ==
    /\ cmd.name = "transcribe"
    /\ cmd.pc = "transcribe_call"
    /\ tpc = "done"
    /\ cmd' = [cmd EXCEPT !.pc = "done"]
    /\ Finish(IF t_result.kind = "return" THEN Completed
              ELSE transcribe_file_handlers(t_result.error))
    /\ UNCHANGED nonCliVars

\* process_file after transcribe: its exception ends the command, its result
\* is given to extract_tasks.
CliProcessTranscribed ==
    /\ cmd.name = "process"
    /\ cmd.pc = "transcribe_call"
    /\ tpc = "done"
    /\ IF t_result.kind = "return"
       THEN /\ cmd' = [cmd EXCEPT !.pc = "extract_call", !.input = AsInput(t_result)]
            /\ UNCHANGED <<cli_out, exits>>
       ELSE /\ cmd' = [cmd EXCEPT !.pc = "done"]
            /\ Finish(transcribe_file_handlers(t_result.error))
    /\ UNCHANGED nonCliVars

\* extract_from_text and process_file after extract_tasks.
CliExtracted ==
    /\ cmd.pc = "extract_call"
    /\ pc = "done"
    /\ cmd' = [cmd EXCEPT !.pc = "done"]
    /\ Finish(IF result.kind = "return" THEN Completed
              ELSE IF cmd.name = "extract" THEN extract_text_handlers(result.error)
              ELSE process_file_handlers(result.error))
    /\ UNCHANGED nonCliVars

\* health after check_connection.
CliHealthChecked ==
    /\ cmd.pc = "check_call"
    /\ cpc = "done"
    /\ cmd' = [cmd EXCEPT !.pc = "done"]
    /\ Finish(IF check_result.kind = "return" THEN Completed
              ELSE health_handlers(check_result.error))
    /\ UNCHANGED nonCliVars

\* The process is over; the next command can be run.
NextCommand ==
    /\ cmd.pc = "done"
    /\ ServicesIdle
    /\ cmd' = NoCommand
    /\ cli_out' = NoCliOutput
    /\ UNCHANGED <<exits, nonCliVars>>

CliNext ==
    \/ \E path \in AudioPaths : CliTranscribeFile(path)
    \/ \E text \in RequestTexts : CliExtractText(text)
    \/ \E path \in AudioPaths : CliProcessFile(path)
    \/ CliHealth
    \/ cmd.pc = "transcribe_call" /\ Transcribe(cmd.path)
    \/ LoadModelReturns
    \/ \E e \in LoadErrors : LoadModelRaises(e)
    \/ \E out \in LifeOutputs : EngineReturns(out)
    \/ \E e \in EngineErrors : EngineRaises(e)
    \/ SegmentStep
    \/ GeneratorRaises
    \/ ReturnTranscription
    \/ CliTranscribed
    \/ CliProcessTranscribed
    \/ cmd.pc \in {"extract_call", "done"} /\ NextTranscribe
    \/ cmd.pc = "extract_call" /\ ExtractTasks(cmd.input)
    \/ \E resp \in LifeResponses : ChatReturns(resp)
    \/ \E e \in ChatErrors : ChatRaises(e)
    \/ NormalizeStep
    \/ ReturnTaskList
    \/ CliExtracted
    \/ cmd.pc = "done" /\ NextCall
    \/ cmd.pc = "check_call" /\ CheckConnection
    \/ \E answer \in LifeAnswers : ListReturns(answer)
    \/ \E e \in ListErrors : ListRaises(e)
    \/ CliHealthChecked
    \/ cmd.pc = "done" /\ NextCheck
    \/ NextCommand

CliSpec == Init /\ [][CliNext]_vars

----------------------------------------------------------------------------
(* Concurrent calls: transcribe_async and extract_tasks_async run transcribe  *)
(* and extract_tasks on the worker threads of the default executor, on the   *)
(* one Transcriber and the one TaskExtractor the API caches. A step is one    *)
(* read or write of an attribute of the shared adapter, or a run of           *)
(* statements over the locals of the call.                                    *)

\* The transcription worker w's request carries: each request has its own
\* audio file and duration.
WorkerInput(w) ==
    ResultInput(<<"x">>, IF w = 1 THEN "a.mp3" ELSE "b.wav", IF w = 1 THEN "3.5" ELSE "0.0")

PoolInputs(w) == { WorkerInput(w), ResultInput(<<" ">>, "a.mp3", "3.5") }

\* What chat answers a call of the pool: a list of one record, or prose.
PoolResponses ==
    { Wrapped([style |-> "plain", pre |-> <<>>, post |-> <<>>], <<r>>) : r \in WrapRecords }
    \cup { Other(<<Word, WS, Word>>) }

\* What chat raises in a call of the pool: one error of each handler.
PoolChatErrors == {"ConnectionError", "ResponseError"}

\* A mutation of the task list: one list, of the first call, for every call.
TasksFrame_Shared(w) == 1

\* The frame that holds the list "tasks = []" binds in the call of worker w:
\* a local of that call.
TasksFrame(w) == w

nonPoolVars ==
    <<extractorVars, modelVars, connVars, transcriberVars, asyncVars, apiVars, cliVars>>

\* The frame of worker w becomes f.
SetFrame(w, f) == frames' = [frames EXCEPT ![w] = f]

\* run_in_executor(None, lambda: self.transcribe(...)): worker w starts
\* transcribe on a valid file and comes to "self.model".
PoolTranscribe(w) ==
    /\ frames[w].pc = "idle"
    /\ SetFrame(w, [NoFrame EXCEPT !.pc = "handle", !.adapter = "transcriber"])
    /\ UNCHANGED <<handles, nonPoolVars>>

\* run_in_executor(None, lambda: self.extract_tasks(...)): worker w starts
\* extract_tasks(inp); an empty text returns at once, any other comes to
\* "self.client".
PoolExtractTasks(w, inp) ==
    /\ frames[w].pc = "idle"
    /\ SetFrame(w, IF text_is_empty(inp.text)
                   THEN [NoFrame EXCEPT !.pc = "done", !.adapter = "extractor",
                                        !.input = inp, !.result = Returned(<<>>, inp)]
                   ELSE [NoFrame EXCEPT !.pc = "handle", !.adapter = "extractor",
                                        !.input = inp])
    /\ UNCHANGED <<handles, nonPoolVars>>

\* "if self._model is None:" ("if self._client is None:"): the read of the
\* attribute, by worker w.
ReadHandle(w) ==
    /\ frames[w].pc = "handle"
    /\ SetFrame(w, [frames[w] EXCEPT !.pc =
                      IF handles[frames[w].adapter].handle = 0 THEN "load" ELSE "return"])
    /\ UNCHANGED <<handles, nonPoolVars>>

\* self._load_model() (Client(host=...)) returns a new handle to worker w.
CreateHandle(w) ==
    /\ frames[w].pc = "load"
    /\ LET a == frames[w].adapter
           n == handles[a].created + 1
       IN  /\ handles' = [handles EXCEPT ![a].created = n]
           /\ SetFrame(w, [frames[w] EXCEPT !.pc = "assign", !.loaded = n])
    /\ UNCHANGED nonPoolVars

\* self._load_model() raises in worker w: transcribe raises TranscriptionError.
CreateHandleFails(w, e) ==
    /\ frames[w].pc = "load"
    /\ frames[w].adapter = "transcriber"
    /\ SetFrame(w, [frames[w] EXCEPT !.pc = "done", !.error = e,
                       !.result = Raised("TranscriptionError", NoDetails, load_model_error(e))])
    /\ UNCHANGED <<handles, nonPoolVars>>

\* "self._model = ..." ("self._client = ..."): the write of the attribute; the
\* thread holds the new handle no longer.
AssignHandle(w) ==
    /\ frames[w].pc = "assign"
    /\ handles' = [handles EXCEPT ![frames[w].adapter].handle = frames[w].loaded]
    /\ SetFrame(w, [frames[w] EXCEPT !.pc = "return", !.loaded = 0])
    /\ UNCHANGED nonPoolVars

\* "return self._model" ("return self._client"): the attribute is read again,
\* and the call of worker w goes on with what it holds.
ReturnHandle(w) ==
    /\ frames[w].pc = "return"
    /\ SetFrame(w, [frames[w] EXCEPT !.pc = "call",
                                     !.used = handles[frames[w].adapter].handle])
    /\ UNCHANGED <<handles, nonPoolVars>>

\* self.model.transcribe(...) and the rest of transcribe, in worker w.
PoolTranscribed(w) ==
    /\ frames[w].pc = "call"
    /\ frames[w].adapter = "transcriber"
    /\ SetFrame(w, [frames[w] EXCEPT !.pc = "done", !.result.kind = "return"])
    /\ UNCHANGED <<handles, nonPoolVars>>

\* The frame f of a call after its response was parsed to p: the call is
\* over with the parser's exception or with the TypeError of a value that
\* cannot be iterated, or it comes to "tasks = []" and the loop.
AfterParse(f, p) ==
    IF p.kind = "raise"
    THEN [f EXCEPT !.pc = "done",
                   !.result = Handled(p.error, [k |-> "response_preview",
                                                preview |-> p.preview])]
    ELSE IF ~Iterable(p.tasks)
    THEN [f EXCEPT !.pc = "done", !.result = Handled("TypeError", NoDetails)]
    ELSE [f EXCEPT !.pc = "loop", !.task_dicts = IterItems(p.tasks), !.idx = 1]

\* self.client.chat(...) returns resp to worker w, which parses it.
PoolChatReturns(w, resp) ==
    /\ frames[w].pc = "call"
    /\ frames[w].adapter = "extractor"
    /\ LET g == AfterParse([frames[w] EXCEPT !.response = resp],
                           parse_llm_response(resp.text))
       IN  frames' = [[frames EXCEPT ![w] = g]
                         EXCEPT ![TasksFrame(w)].tasks = IF g.pc = "loop" THEN <<>> ELSE @]
    /\ UNCHANGED <<handles, nonPoolVars>>

\* self.client.chat(...) raises e in worker w.
PoolChatRaises(w, e) ==
    /\ frames[w].pc = "call"
    /\ frames[w].adapter = "extractor"
    /\ SetFrame(w, [frames[w] EXCEPT !.pc = after_chat_raises(e), !.error = e,
                                     !.result = Handled(e, NoDetails)])
    /\ UNCHANGED <<handles, nonPoolVars>>

\* One pass of the loop body in worker w.
PoolNormalizeStep(w) ==
    /\ frames[w].pc = "loop"
    /\ frames[w].idx <= Len(frames[w].task_dicts)
    /\ LET f == frames[w]
           r == normalize_record(f.task_dicts[f.idx])
           t == TasksFrame(w)
       IN  IF r.exc = "none"
           THEN frames' = [[frames EXCEPT ![w].idx = f.idx + 1]
                               EXCEPT ![t].tasks = AppendTask(frames[t].tasks, r.task)]
           ELSE IF Skips(r.exc)
           THEN SetFrame(w, [f EXCEPT !.idx = f.idx + 1])
           ELSE SetFrame(w, [f EXCEPT !.pc = "done", !.result = Handled(r.exc, NoDetails)])
    /\ UNCHANGED <<handles, nonPoolVars>>

\* The loop of worker w is over: return TaskList(tasks=tasks, ...).
PoolReturnTaskList(w) ==
    /\ frames[w].pc = "loop"
    /\ frames[w].idx > Len(frames[w].task_dicts)
    /\ SetFrame(w, [frames[w] EXCEPT !.pc = "done",
                       !.result = Returned(frames[TasksFrame(w)].tasks, frames[w].input)])
    /\ UNCHANGED <<handles, nonPoolVars>>

\* The future of worker w is done and the thread is free for the next call;
\* the adapters keep what they hold.
PoolNextCall(w) ==
    /\ frames[w].pc = "done"
    /\ SetFrame(w, NoFrame)
    /\ UNCHANGED <<handles, nonPoolVars>>

\* Concurrent calls of extract_tasks on the shared TaskExtractor.
ExtractPoolNext ==
    \E w \in Workers :
        \/ \E inp \in PoolInputs(w) : PoolExtractTasks(w, inp)
        \/ ReadHandle(w)
        \/ CreateHandle(w)
        \/ AssignHandle(w)
        \/ ReturnHandle(w)
        \/ \E resp \in PoolResponses : PoolChatReturns(w, resp)
        \/ \E e \in PoolChatErrors : PoolChatRaises(w, e)
        \/ PoolNormalizeStep(w)
        \/ PoolReturnTaskList(w)
        \/ PoolNextCall(w)

ExtractPoolSpec == Init /\ [][ExtractPoolNext]_vars

\* Concurrent calls of transcribe and of extract_tasks on the shared adapters.
PoolNext ==
    \/ ExtractPoolNext
    \/ \E w \in Workers :
        \/ PoolTranscribe(w)
        \/ \E e \in LoadErrors : CreateHandleFails(w, e)
        \/ PoolTranscribed(w)

PoolSpec == Init /\ [][PoolNext]_vars

----------------------------------------------------------------------------
(* Vocabulary of the properties *)

\* A text with no character other than whitespace (the empty text included).
IsBlank(s) == \A i \in 1..Len(s) : IsSpace(s[i])

\* The positions of the records that have a task in the local list.
KeptPositions == {origin[j] : j \in 1..Len(origin)}

\* Date-time strings that denote an instant.
IsoStrings ==
    { <<"2025-01-15", "T", "10:00:00">>, <<"2025-01-15", " ", "10:00:00">>,
      <<"2025-01-15">> }

OptionalStrOk(d, f) == f \in DOMAIN d => d[f].t \in {"null", "str"}

\* A record with a title that is a str of whitespace only (or empty).
HasBlankTitle(r) ==
    /\ r.t = "dict"
    /\ "title" \in DOMAIN r.fields
    /\ r.fields["title"].t = "str"
    /\ IsBlank(r.fields["title"].s)

\* A valid record, field by field: a mapping with no key outside the Task
\* fields; a str title with 1 to 200 characters between its first and last
\* non-whitespace character; a priority, if given, that is a non-empty str;
\* a status, if given, among the status values; a due_date, if given, null or
\* a date-time string; description, assignee, source_segment null or a str.
WellFormedRecord(r) ==
    /\ r.t = "dict"
    /\ DOMAIN r.fields \subseteq TaskFields
    /\ "title" \in DOMAIN r.fields
    /\ r.fields["title"].t = "str"
    /\ ~IsBlank(r.fields["title"].s)
    /\ LET ns == {i \in 1..Len(r.fields["title"].s) : ~IsSpace(r.fields["title"].s[i])}
       IN  \A a, b \in ns : b - a + 1 <= MaxTitleLen
    /\ "priority" \in DOMAIN r.fields =>
          r.fields["priority"].t = "str" /\ r.fields["priority"].s # <<>>
    /\ "status" \in DOMAIN r.fields =>
          /\ r.fields["status"].t = "str"
          /\ \E v \in StatusValues : r.fields["status"].s = <<v>>
    /\ "due_date" \in DOMAIN r.fields =>
          \/ r.fields["due_date"].t = "null"
          \/ r.fields["due_date"].t = "str" /\ r.fields["due_date"].s \in IsoStrings
    /\ OptionalStrOk(r.fields, "description")
    /\ OptionalStrOk(r.fields, "assignee")
    /\ OptionalStrOk(r.fields, "source_segment")

\* Equal up to the case of the letters.
SameIgnoringCase(a, b) ==
    Len(a) = Len(b) /\ \A i \in 1..Len(a) : LowerChar(a[i]) = LowerChar(b[i])

\* The priority the specification gives a record with priority string s.
ExpectedPriority(s) ==
    IF \E v \in PriorityValues : SameIgnoringCase(s, v)
    THEN CHOOSE v \in PriorityValues : SameIgnoringCase(s, v)
    ELSE MEDIUM

\* The call went through the loop and is over.
LoopDone == pc = "done" /\ parsed.kind = "return" /\ Iterable(parsed.tasks)

----------------------------------------------------------------------------
(* Properties *)

\* C1: a call whose text is empty or whitespace only (a str or a
\* TranscriptionResult) never invokes chat and returns a TaskList with no task.
C1_EmptyTextSkipsChat ==
    (pc # "idle" /\ IsBlank(transcription.text)) =>
        /\ chat_calls = 0
        /\ pc = "done"
        /\ result.kind = "return"
        /\ result.tasks = <<>>

C1_Witness ==
    /\ pc = "done"
    /\ transcription.isResult
    /\ transcription.text = <<"\n">>
    /\ client = "Client"
    /\ result.kind = "return"

\* C2: for a well-formed object {"tasks": [...]}, the parser returns the same
\* list of records whether the object is the whole text, is inside a ``` fence
\* (with or without the json tag) or is embedded in prose.
C2_SameListInEveryWrapping ==
    (parsed.kind # "none" /\ response.style \in {"plain", "fenced", "prose"}) =>
        /\ parsed.kind = "return"
        /\ parsed.tasks = JList(response.recs)

\* C3: a record whose priority is a str is kept; its Task has the priority
\* the str names, compared without case, and medium for every other str.
C3_PriorityStringKept ==
    LoopDone =>
        \A i \in 1..Len(task_dicts) :
            task_dicts[i] \in PriorityRecords =>
                \E j \in 1..Len(result.tasks) :
                    /\ origin[j] = i
                    /\ result.tasks[j].priority =
                          ExpectedPriority(task_dicts[i].fields["priority"].s)

\* C4: when every record is valid or has a blank title, the call returns
\* normally, no record with a blank title has a task, and the list is shorter
\* than the record list by exactly the number of records with a blank title.
C4_BlankTitlesDropped ==
    (LoopDone /\ \A i \in 1..Len(task_dicts) :
                    HasBlankTitle(task_dicts[i]) \/ WellFormedRecord(task_dicts[i])) =>
        /\ result.kind = "return"
        /\ \A i \in 1..Len(task_dicts) :
              HasBlankTitle(task_dicts[i]) => i \notin KeptPositions
        /\ Len(result.tasks) =
              Len(task_dicts)
                - Cardinality({i \in 1..Len(task_dicts) : HasBlankTitle(task_dicts[i])})

C4_Witness ==
    /\ LoopDone
    /\ Len(task_dicts) = 2
    /\ HasBlankTitle(task_dicts[1])
    /\ task_dicts[1].fields["title"].s # <<>>
    /\ WellFormedRecord(task_dicts[2])
    /\ Len(result.tasks) = 1

\* C5: once the parser has returned a list of records, a record that fails
\* (over-long title, malformed due_date, wrong field type, not a mapping) is
\* skipped alone: the call raises nothing and returns a TaskList with a Task
\* for every valid record.
C5_InvalidRecordSkippedAlone ==
    /\ (pc = "loop" /\ parsed.tasks.t = "list") => result.kind = "none"
    /\ (LoopDone /\ parsed.tasks.t = "list") =>
          /\ result.kind = "return"
          /\ Len(result.tasks) = Len(origin)
          /\ \A i \in 1..Len(task_dicts) :
                WellFormedRecord(task_dicts[i]) => i \in KeptPositions

C5_Witness ==
    /\ LoopDone
    /\ Len(task_dicts) = 2
    /\ task_dicts[1].t = "num"
    /\ WellFormedRecord(task_dicts[2])
    /\ result.kind = "return"
    /\ Len(result.tasks) = 1

\* C6: the tasks returned are a subsequence of the parsed records: each task
\* is the task of one record, the records of the tasks are in increasing
\* position, and a skipped record leaves nothing in the list.
C6_TasksInRecordOrder ==
    (LoopDone /\ result.kind = "return") =>
        /\ Len(result.tasks) = Len(origin)
        /\ \A j \in 1..Len(origin) :
              /\ origin[j] \in 1..Len(task_dicts)
              /\ normalize_record(task_dicts[origin[j]]).exc = "none"
              /\ result.tasks[j] = normalize_record(task_dicts[origin[j]]).task
        /\ \A j, k \in 1..Len(origin) : j < k => origin[j] < origin[k]

C6_Witness ==
    /\ LoopDone
    /\ result.kind = "return"
    /\ Len(result.tasks) = 2
    /\ result.tasks[1] # result.tasks[2]

\* out is raw without its leading and trailing whitespace, in lower case.
IsTrimmedLowerOf(out, raw) ==
    \E a \in 0..Len(raw) :
        /\ a + Len(out) <= Len(raw)
        /\ \A k \in 1..Len(out) : out[k] = LowerChar(raw[a + k])
        /\ \A k \in 1..Len(raw) : (k <= a \/ k > a + Len(out)) => IsSpace(raw[k])

\* The positions of the entries of a tag list that are a str with a character
\* other than whitespace.
TagPositions(items) ==
    {i \in 1..Len(items) : items[i].t = "str" /\ ~IsBlank(items[i].s)}

\* The j-th smallest element of a set of positions.
NthPosition(S, j) == CHOOSE p \in S : Cardinality({q \in S : q < p}) = j - 1

\* C7: the tags of a Task are lower-cased and trimmed, none is empty, and they
\* are the non-blank str entries of the input in the input's order; a missing,
\* null or non-list tags value gives no tag.
C7_TagsNormalized ==
    (mpc # "raw" /\ normalized.exc = "none") =>
        LET out == normalized.task.tags
            given == Get(kwargs.fields, "tags", JNull)
        IN  /\ \A j \in 1..Len(out) :
                  /\ out[j] # <<>>
                  /\ ~IsSpace(out[j][1]) /\ ~IsSpace(out[j][Len(out[j])])
                  /\ \A k \in 1..Len(out[j]) : out[j][k] \notin UpperChars
            /\ given.t # "list" => out = <<>>
            /\ given.t = "list" =>
                  /\ Len(out) = Cardinality(TagPositions(given.items))
                  /\ \A j \in 1..Len(out) :
                        IsTrimmedLowerOf(out[j],
                            given.items[NthPosition(TagPositions(given.items), j)].s)

C7_Witness ==
    /\ mpc = "normalized"
    /\ normalized.exc = "none"
    /\ "tags" \in DOMAIN kwargs.fields
    /\ kwargs.fields["tags"] = JList(<<JStr(<<"b", " ">>), JStr(<<" ", "G", "o">>)>>)
    /\ normalized.task.tags = << <<"b">>, <<"g", "o">> >>

\* C8: the record of a Task (its dumped fields), normalized again by the
\* per-record path, gives a Task equal to it in every field.
C8_NormalizationIdempotent ==
    mpc \in {"renormalized_json", "renormalized_dump"} =>
        /\ renormalized.exc = "none"
        /\ renormalized.task = normalized.task

\* The part of C8 that the code keeps: the JSON record of a Task goes through
\* the per-record path unchanged.
JsonRecordIsFixedPoint ==
    mpc = "renormalized_json" =>
        /\ renormalized.exc = "none"
        /\ renormalized.task = normalized.task

\* C9: when the text is not empty and chat fails because the backend is
\* unreachable or times out, the call fails with OllamaConnectionError.
C9_ConnectivityErrorSurfaces ==
    (pc = "done" /\ chat_error \in ConnectivityErrors) =>
        /\ result.kind = "raise"
        /\ result.error = "OllamaConnectionError"

\* No tier recovers a JSON object from the text.
AllTiersFail(s) == Tier1(s).kind # "ok" /\ Tier2(s).kind # "ok" /\ Tier3(s).kind # "ok"

\* C10: the parser fails exactly when all three tiers fail to recover a JSON
\* object; the failure is a TaskExtractionError whose details carry the first
\* 500 units of the text, and it leaves extract_tasks unchanged.
C10_ParseFailureIsExtractionError ==
    parsed.kind # "none" =>
        /\ parsed.kind = "raise" <=> AllTiersFail(response.text)
        /\ parsed.kind = "raise" =>
              /\ parsed.error = "TaskExtractionError"
              /\ parsed.preview = Prefix(response.text, PreviewLen)
              /\ pc = "done"
              /\ result = Raised("TaskExtractionError",
                                 [k |-> "response_preview", preview |-> parsed.preview],
                                 "none")

\* a occurs in b as a run of consecutive characters.
OccursIn(a, b) ==
    \E i \in 1..(Len(b) + 1) :
        \A k \in 1..Len(a) : i + k - 1 <= Len(b) /\ b[i + k - 1] = a[k]

\* The configured name without its tag: what stands before its first ":".
WithoutTag(m) ==
    CHOOSE b \in {SubSeq(m, 1, k) : k \in 0..Len(m)} :
        /\ \A i \in 1..Len(b) : b[i] # ":"
        /\ Len(b) = Len(m) \/ m[Len(b) + 1] = ":"

\* The names of the installed models an answer lists; an entry that carries
\* no name is listed with the empty name.
InstalledNames(answer) ==
    LET es == Get(answer.fields, "models", JList(<<>>)).items
    IN  { IF "name" \in DOMAIN es[i].fields THEN es[i].fields["name"].s ELSE <<>> :
            i \in 1..Len(es) }

\* check_connection is over, the backend having answered with a model list.
CheckAnswered ==
    cpc = "done" /\ list_outcome.kind = "answer" /\ list_outcome.answer \in ListAnswers

\* C11: when the backend answers the model-list query, check_connection
\* returns True exactly when the configured model without its ":" tag occurs in
\* the name of an installed model; otherwise it raises OllamaModelNotFoundError
\* naming the configured model in full.
C11_TrueIffBaseInstalled ==
    CheckAnswered =>
        IF \E n \in InstalledNames(list_outcome.answer) : OccursIn(WithoutTag(config.model), n)
        THEN check_result.kind = "return" /\ check_result.value = TRUE
        ELSE /\ check_result.kind = "raise"
             /\ check_result.error = "OllamaModelNotFoundError"
             /\ check_result.model = config.model

C11_Witness ==
    /\ CheckAnswered
    /\ config.model = <<"g", ":", "4">>
    /\ InstalledNames(list_outcome.answer) = { <<"g", "e", ":", "1">>, <<"o">> }
    /\ check_result.kind = "return"

\* C12: check_connection never returns False: it returns True, raises
\* OllamaConnectionError with the configured host in its message (so it does
\* whenever the model-list query raises), or raises OllamaModelNotFoundError;
\* a model that is not found is never reported as a connection error.
C12_ThreeOutcomes ==
    cpc = "done" =>
        /\ \/ check_result.kind = "return" /\ check_result.value = TRUE
           \/ /\ check_result.kind = "raise"
              /\ check_result.error = "OllamaConnectionError"
              /\ check_result.host = config.host
           \/ /\ check_result.kind = "raise"
              /\ check_result.error = "OllamaModelNotFoundError"
        /\ list_outcome.kind = "raise" =>
              /\ check_result.error = "OllamaConnectionError"
              /\ check_result.host = config.host
              /\ check_result.cause = list_outcome.error
        /\ (CheckAnswered /\ ~\E n \in InstalledNames(list_outcome.answer) :
                                  OccursIn(WithoutTag(config.model), n)) =>
              check_result.error = "OllamaModelNotFoundError"

C12_Witness ==
    /\ cpc = "done"
    /\ list_outcome.kind = "raise"
    /\ config.host = "http://gpu:11434"
    /\ check_result.error = "OllamaConnectionError"
    /\ check_result.host = "http://gpu:11434"

\* The suffix names a supported format, letters compared without case.
SupportedIgnoringCase(suffix) ==
    \E f \in SUPPORTED_FORMATS : SameIgnoringCase(<<".">> \o f, suffix)

\* The path given to transcribe does not pass validation.
FailsValidation(path) ==
    ~path.exists \/ ~path.is_file \/ ~SupportedIgnoringCase(path.suffix)

\* C13: a path that fails validation (no such file: a not-found ValueError;
\* a file whose extension, compared without case, is not supported:
\* UnsupportedAudioFormatError) makes transcribe fail before the engine is
\* loaded or invoked: no load, no engine call, the model handle as it was.
C13_InvalidPathFailsBeforeEngine ==
    (tpc # "idle" /\ FailsValidation(audio_path)) =>
        /\ tpc = "done"
        /\ t_result.kind = "raise"
        /\ ~audio_path.exists => t_result.error = "ValidationError"
        /\ (audio_path.exists /\ audio_path.is_file) =>
              t_result.error = "UnsupportedAudioFormatError"
        /\ engine_calls = 0
        /\ call_loads = 0
        /\ t_model = model_at_call

C13_Witness ==
    /\ tpc = "done"
    /\ audio_path.str = "/a/x.xyz"
    /\ t_result.error = "UnsupportedAudioFormatError"
    /\ t_model = "None"
    /\ engine_calls = 0

\* C14: for a validated file, every exception raised by the inference layer
\* (loading the model, the engine call, the iteration over its segments),
\* whatever its type, leaves transcribe as a TranscriptionError whose details
\* hold the source path.
C14_InferenceErrorsWrapped ==
    (tpc = "done" /\ inference_error # "none") =>
        /\ t_result.kind = "raise"
        /\ t_result.error = "TranscriptionError"
        /\ t_result.details = audio_path.str

\* out is raw without its leading and trailing whitespace.
IsTrimOf(out, raw) ==
    /\ out # <<>> => ~IsSpace(out[1]) /\ ~IsSpace(out[Len(out)])
    /\ \E a \in 0..Len(raw) :
          /\ a + Len(out) <= Len(raw)
          /\ \A k \in 1..Len(out) : out[k] = raw[a + k]
          /\ \A k \in 1..Len(raw) : (k <= a \/ k > a + Len(out)) => IsSpace(raw[k])

RECURSIVE StartOf(_, _)
\* Where the text of segment i begins in the joined text, less one.
StartOf(segs, i) ==
    IF i = 1 THEN 0 ELSE StartOf(segs, i - 1) + Len(segs[i - 1].text) + 1

\* text is the texts of segs, in order, with one space between neighbours.
IsSpaceJoined(text, segs) ==
    LET n == Len(segs)
    IN  /\ Len(text) = IF n = 0 THEN 0 ELSE StartOf(segs, n) + Len(segs[n].text)
        /\ \A i \in 1..n :
              /\ \A k \in 1..Len(segs[i].text) : text[StartOf(segs, i) + k] = segs[i].text[k]
              /\ i < n => text[StartOf(segs, i) + Len(segs[i].text) + 1] = " "

\* C15: a successful transcribe of an engine output of n segments returns n
\* TranscriptionSegments in the engine's order, the text made of the trimmed
\* segment texts joined by single spaces, and as duration the end of the last
\* segment, 0 when there is none.
C15_ResultFromSegments ==
    (tpc = "done" /\ t_result.kind = "return") =>
        LET given == engine_output.segs
            got == t_result.segments
        IN  /\ Len(got) = Len(given)
            /\ \A i \in 1..Len(given) :
                  /\ got[i].start = given[i].start
                  /\ got[i].end = given[i].end
                  /\ IsTrimOf(got[i].text, given[i].text)
            /\ IsSpaceJoined(t_result.text, got)
            /\ t_result.duration_seconds =
                  IF given = <<>> THEN 0 ELSE given[Len(given)].end

C15_Witness ==
    /\ tpc = "done"
    /\ t_result.kind = "return"
    /\ Len(engine_output.segs) = 2
    /\ t_result.text = <<"H", "i", " ">>
    /\ t_result.duration_seconds = 1

\* A step in which self.client is used: the chat call or the model-list query.
UsesClient == chat_calls' = chat_calls + 1 \/ (cpc = "idle" /\ cpc' = "list")

\* A step in which _load_model is invoked.
InvokesLoader == call_loads' = call_loads + 1

\* A step of the handles: a use with no handle creates it, the loader being
\* invoked once; with a handle, every step keeps it and invokes no loader.
HandleStep ==
    /\ (client = "None" /\ UsesClient) => (client' # "None" /\ client_loads' = client_loads + 1)
    /\ (client = "None" /\ ~UsesClient) => (client' = "None" /\ client_loads' = client_loads)
    /\ client # "None" => (client' = client /\ client_loads' = client_loads)
    /\ (t_model = "None" /\ tpc = "model") => InvokesLoader
    /\ (t_model = "None" /\ tpc # "model") => (t_model' = "None" /\ ~InvokesLoader)
    /\ t_model # "None" => (t_model' = t_model /\ ~InvokesLoader)

C17_MetadataCarried ==
    (pc = "done" /\ result.kind = "return") =>
        IF transcription.isResult
        THEN /\ result.source_audio = transcription.audio_path
             /\ result.total_duration_seconds = transcription.duration_seconds
             /\ result.language = transcription.language
        ELSE /\ result.source_audio = "None"
             /\ result.total_duration_seconds = "None"
             /\ result.language = "None"

C17_Witness ==
    /\ pc = "done"
    /\ result.kind = "return"
    /\ transcription.isResult
    /\ chat_calls = 1
    /\ result.tasks # <<>>
    /\ result.source_audio = "a.mp3"
    /\ result.total_duration_seconds = "3.5"
    /\ result.language = "en"

\* C18: every Task of a TaskList returned by extract_tasks has a title with no
\* whitespace at its ends and of 1 to 200 characters.
C18_TitlesTrimmedAndBounded ==
    (pc = "done" /\ result.kind = "return") =>
        \A j \in 1..Len(result.tasks) :
            LET title == result.tasks[j].title
            IN  /\ Len(title) >= 1
                /\ Len(title) <= MaxTitleLen
                /\ ~IsSpace(title[1])
                /\ ~IsSpace(title[Len(title)])

C18_Witness ==
    /\ pc = "done"
    /\ result.kind = "return"
    /\ Len(task_dicts) = 2
    /\ HasBlankTitle(task_dicts[1])
    /\ WellFormedRecord(task_dicts[2])
    /\ task_dicts[2].fields["title"].s = FullTitle
    /\ Len(result.tasks) = 1
    /\ Len(result.tasks[1].title) = MaxTitleLen

RECURSIVE KeptTasks(_)
\* The Tasks of the records that the per-record path accepts, in order.
KeptTasks(records) ==
    IF records = <<>> THEN <<>>
    ELSE LET r == normalize_record(Head(records))
         IN  IF r.exc = "none" THEN <<r.task>> \o KeptTasks(Tail(records))
             ELSE KeptTasks(Tail(records))

\* The outcome of the synchronous extract_tasks(inp) when chat raises err or,
\* err being "none", returns resp.
SyncOutcome(inp, resp, err) ==
    IF text_is_empty(inp.text) THEN Returned(<<>>, inp)
    ELSE IF err # "none" THEN Handled(err, NoDetails)
    ELSE LET p == parse_llm_response(resp.text)
         IN  IF p.kind = "raise"
             THEN Handled(p.error, [k |-> "response_preview", preview |-> p.preview])
             ELSE IF ~Iterable(p.tasks) THEN Handled("TypeError", NoDetails)
             ELSE Returned(KeptTasks(IterItems(p.tasks)), inp)

\* C19: extract_tasks_async ends as the synchronous extract_tasks does for the
\* same input and the same chat outcome, with the same TaskList or the same
\* error; it runs extract_tasks once, on a worker thread.
C19_AsyncEqualsSync ==
    /\ apc \in {"running", "done"} => (thread = "worker" /\ sync_runs = 1 /\ chat_calls <= 1)
    /\ (apc = "running" /\ pc # "idle") => transcription = async_arg
    /\ (apc = "done" /\ pc = "done") =>
          async_result = SyncOutcome(async_arg, response, chat_error)

C19_Witness ==
    /\ apc = "done"
    /\ pc = "done"
    /\ async_arg.isResult
    /\ chat_calls = 1
    /\ async_result.kind = "return"
    /\ Len(async_result.tasks) = 2
    /\ async_result.source_audio = "a.mp3"


\* The request is bad input: an upload with no name or whose extension the
\* transcriber does not support, or an extraction request with no text.
IsBadInput(req) ==
    \/ /\ req.endpoint \in {"/api/transcribe", "/api/process"}
       /\ \/ req.filename = <<>>
          \/ LstripDot(Lower(PathSuffix(req.filename))) \notin SUPPORTED_FORMATS
    \/ req.endpoint = "/api/tasks/extract" /\ req.text = <<>>

\* C20: on /api/transcribe, /api/tasks/extract and /api/process, a request
\* that is bad input (in particular an upload with an unsupported extension)
\* is answered with a 4xx status, and a failure of transcription or of
\* extraction with a 5xx status whose body holds the error's message.
C20_ErrorsMappedToStatus ==
    rpc = "done" =>
        /\ IsBadInput(request) => http.status \in 400..499
        /\ (~IsBadInput(request) /\ http.raised \notin {"none"} \cup UploadErrors) =>
              (http.status \in 500..599 /\ http.error = http.raised)

\* The text tier i hands to json.loads: the whole text, the group of the
\* fenced match, the embedded match; no text where the pattern does not match.
TierHasText(s, i) ==
    CASE i = 1 -> TRUE
      [] i = 2 -> FenceMatches(s) # {}
      [] i = 3 -> EmbeddedStarts(s) # {}

TierText(s, i) ==
    CASE i = 1 -> s
      [] i = 2 -> fenced_group(s)
      [] i = 3 -> embedded_match(s)

\* The tiers whose text is valid JSON.
ParsingTiers(s) == {i \in 1..3 : TierHasText(s, i) /\ json_loads(TierText(s, i)).ok}

\* C22: the tiers are tried in the order whole text, fenced block, embedded
\* object; the first tier whose JSON parse succeeds decides the result, which
\* for an object is its "tasks" value, or the empty list when the key is
\* absent, and no later tier decides; when no tier parses the parser fails.
C22_FirstParsingTierDecides ==
    parsed.kind # "none" =>
        LET s == response.text IN
        IF ParsingTiers(s) = {} THEN parsed.kind = "raise" /\ parsed.tier = 0
        ELSE LET i == SetMin(ParsingTiers(s))
                 v == json_loads(TierText(s, i)).val
             IN  /\ parsed.tier = i
                 /\ v.t = "dict" =>
                       /\ parsed.kind = "return"
                       /\ parsed.tasks = IF "tasks" \in DOMAIN v.fields
                                         THEN v.fields["tasks"] ELSE JList(<<>>)

\* A fenced object without the "tasks" key was returned as the empty list by
\* the second tier, the whole text not being JSON.
C22_Witness ==
    /\ parsed.kind = "return"
    /\ parsed.tier = 2
    /\ parsed.tasks = JList(<<>>)
    /\ ~json_loads(response.text).ok
    /\ "tasks" \notin DOMAIN json_loads(fenced_group(response.text)).val.fields
    /\ pc = "loop"

\* C23: no operation retries.  One extract_tasks call with non-empty text
\* invokes chat exactly once whether chat returns or raises, one transcribe
\* call invokes the engine's transcribe at most once, and a call that failed
\* is over with its error after that single attempt.
C23_NoRetry ==
    /\ chat_calls <= 1
    /\ engine_calls <= 1
    /\ (pc \in {"loop", "done"} /\ ~text_is_empty(transcription.text)) => chat_calls = 1
    /\ chat_error # "none" => (pc = "done" /\ chat_calls = 1 /\ result.kind = "raise")
    /\ (tpc \in {"iterate", "done"} /\ engine_output # NoOutput) => engine_calls = 1
    /\ (inference_error # "none" /\ tpc # "idle") => (tpc = "done" /\ t_result.kind = "raise")
    /\ (tpc = "done" /\ t_result.kind = "return") => engine_calls = 1

\* A call whose chat raised is over after one invocation.
C23_Witness ==
    /\ pc = "done"
    /\ chat_error \in ChatErrors
    /\ chat_calls = 1
    /\ result.kind = "raise"
    /\ t_model = "Model"

\* The record r without its priority.
WithoutPriority(r) ==
    JDict([k \in DOMAIN r.fields \ {"priority"} |-> r.fields[k]])

\* A record whose priority is absent or null and whose other fields are valid.
PriorityAbsentOrNull(r) ==
    /\ r.t = "dict"
    /\ "priority" \in DOMAIN r.fields => r.fields["priority"] = JNull
    /\ WellFormedRecord(WithoutPriority(r))

\* C25: a record whose priority is absent or null and whose other fields are
\* valid is kept, and its Task has priority medium.
C25_AbsentOrNullPriorityIsMedium ==
    LoopDone =>
        \A i \in 1..Len(task_dicts) :
            PriorityAbsentOrNull(task_dicts[i]) =>
                \E j \in 1..Len(result.tasks) :
                    /\ origin[j] = i
                    /\ result.tasks[j].priority = MEDIUM

\* A record with a key that is not a field of Task.
HasExtraKey(r) == r.t = "dict" /\ ~(DOMAIN r.fields \subseteq
    {"title", "description", "priority", "status", "due_date", "assignee",
     "tags", "source_segment"})

\* C28: a record with a key outside the eight Task fields is skipped as
\* invalid, and the other records of the batch are still processed: the call
\* returns a TaskList that has a Task for every valid record.
C28_ExtraKeySkipped ==
    (LoopDone /\ parsed.tasks.t = "list") =>
        /\ result.kind = "return"
        /\ \A i \in 1..Len(task_dicts) :
              /\ HasExtraKey(task_dicts[i]) => i \notin KeptPositions
              /\ WellFormedRecord(task_dicts[i]) => i \in KeptPositions

\* A batch whose first record has the key "owner" and whose second is valid.
C28_Witness ==
    /\ LoopDone
    /\ Len(task_dicts) = 2
    /\ HasExtraKey(task_dicts[1])
    /\ WellFormedRecord(task_dicts[2])
    /\ origin = <<2>>
    /\ Len(result.tasks) = 1

\* C29: when the whole response text is valid JSON but not an object, or is
\* an object whose "tasks" value is null or a number, extract_tasks raises a
\* TaskExtractionError and returns no TaskList; in the non-object case the
\* parser stops at the first tier.
C29_NonObjectFailsAtFirstTier ==
    parsed.kind # "none" =>
        LET r == json_loads(response.text) IN
        /\ (r.ok /\ r.val.t # "dict") =>
              /\ parsed.kind = "raise"
              /\ parsed.tier = 1
              /\ pc = "done"
              /\ result.kind = "raise"
              /\ result.error = "TaskExtractionError"
        /\ (r.ok /\ r.val.t = "dict" /\ "tasks" \in DOMAIN r.val.fields
                 /\ r.val.fields["tasks"].t \in {"null", "num"}) =>
              /\ pc = "done"
              /\ result.kind = "raise"
              /\ result.error = "TaskExtractionError"

\* The response was the array [] and the call raised a TaskExtractionError
\* caused by the AttributeError of the first tier.
C29_Witness ==
    /\ response.text = <<LK, RK>>
    /\ parsed.tier = 1
    /\ result.kind = "raise"
    /\ result.error = "TaskExtractionError"
    /\ result.cause = "AttributeError"

\* The call passed validation and has used self.model.
PastModel ==
    \/ tpc \in {"engine", "iterate"}
    \/ tpc = "done" /\ validate_audio_file(audio_path) = "none"

\* C30: when loading the model fails during transcribe, the call raises a
\* TranscriptionError and the handle stays unset; a call that finds the handle
\* unset invokes the loader again, whatever failed before, and a load that
\* succeeds is kept: a call that finds the handle set invokes no loader.
C30_FailedLoadRetriedNextCall ==
    /\ (tpc = "done" /\ call_loads = 1 /\ engine_calls = 0) =>
          /\ inference_error \in LoadErrors
          /\ t_result.kind = "raise"
          /\ t_result.error = "TranscriptionError"
          /\ t_result.cause = "ModelLoadError"
          /\ t_model = "None"
          /\ load_failed
    /\ (PastModel /\ model_at_call = "None") => call_loads = 1
    /\ (PastModel /\ model_at_call = "Model") => (call_loads = 0 /\ t_model = "Model")
    /\ tpc \in {"engine", "iterate"} => t_model = "Model"

\* After a failed load, a later call loaded the model and returned.
C30_Witness ==
    /\ load_failed
    /\ tpc = "done"
    /\ model_at_call = "None"
    /\ call_loads = 1
    /\ t_model = "Model"
    /\ t_result.kind = "return"

\* The exceptions of the pipeline: unsupported format, transcription failure,
\* connectivity failure, model not found, extraction failure.
PipelineErrors ==
    {"UnsupportedAudioFormatError", "TranscriptionError", "OllamaConnectionError",
     "OllamaModelNotFoundError", "TaskExtractionError"}

\* C21: a CLI command that a pipeline error ends prints a message and exits
\* with a status that is not 0 and that differs from the status of every
\* other kind of pipeline error.
C21_DistinctNonZeroExits ==
    /\ (cmd.pc = "done" /\ cli_out.error \in PipelineErrors) =>
          (cli_out.exit # 0 /\ cli_out.printed # "none")
    /\ \A p, q \in exits :
          (p.error \in PipelineErrors /\ q.error \in PipelineErrors) =>
              /\ p.code # 0
              /\ p.error # q.error => p.code # q.code

\* C27: on /api/transcribe and /api/process, whenever the handler finishes
\* after the temporary file of the upload was created (success, transcription
\* error, extraction error, failure while reading or writing the upload), the
\* temporary file does not exist any more.
C27_TempFileRemoved ==
    (rpc = "done" /\ tmp_file.created) => ~tmp_file.exists

\* C24: under every interleaving of concurrent calls on the shared adapters,
\* the model handle and the client handle are each created at most once, and
\* all calls on an adapter use the same handle.
C24_HandleCreatedOnce ==
    /\ \A a \in Adapters : handles[a].created <= 1
    /\ \A v, w \in Workers :
          (frames[v].adapter = frames[w].adapter /\ frames[v].used # 0 /\ frames[w].used # 0)
              => frames[v].used = frames[w].used

\* C26: under every interleaving, the TaskList a call on the shared
\* TaskExtractor returns holds the tasks of that call's own response, in
\* order, with that call's own source metadata; a call that fails, fails as it
\* does alone.
C26_CallsDoNotInterfere ==
    \A w \in Workers :
        /\ (frames[w].pc = "loop") =>
              frames[w].tasks = KeptTasks(SubSeq(frames[w].task_dicts, 1, frames[w].idx - 1))
        /\ (frames[w].pc = "done" /\ frames[w].adapter = "extractor") =>
              frames[w].result =
                  SyncOutcome(frames[w].input, frames[w].response, frames[w].error)

C26_Witness ==
    /\ frames[1].pc = "done"
    /\ frames[1].result.kind = "return"
    /\ Len(frames[1].result.tasks) = 1
    /\ frames[1].result.source_audio = "a.mp3"
    /\ frames[2].pc = "loop"
    /\ Len(frames[2].tasks) = 1
    /\ frames[2].input = WorkerInput(2)
    /\ frames[1].response # frames[2].response

====
